---- MODULE Spec2Model ----
(***************************************************************************)
(* Capture-and-distribution engine of starry-bot:                          *)
(*   GraphicsCaptureService (core/interface/src/services/graphics_capture) *)
(*   MinimapService         (core/interface/src/services/minimap_v2)       *)
(* and the tokio broadcast channel that connects them.                     *)
(***************************************************************************)
EXTENDS Integers, Sequences, FiniteSets, TLC

(***************************************************************************)
(* Bounds of the model and constants of the program.                       *)
(***************************************************************************)
\* capacity asked of broadcast::channel in GraphicsCaptureService::new
HubCapacity == 100
\* publish attempts explored when the hub is studied alone
MaxHubFrames == 131
\* publish attempts explored in the lifecycle specifications
MaxFrames == 1
\* API calls explored: of MinimapService by concurrent callers, of
\* MinimapService when starts do not overlap, of GraphicsCaptureService
MaxCalls == 2
MaxSerialCalls == 2
MaxGfxCalls == 2
\* API calls of GraphicsCaptureService explored when made one at a time
MaxGfxSerialCalls == 3
\* publish attempts explored when GraphicsCaptureService is used directly
MaxGfxFrames == 2
\* calls of the DXGI engine explored
MaxDxgiCalls == 4
\* extract_frame_data calls and set_gpu_processing calls explored
MaxExtractions == 2
MaxGpuSwitches == 1
\* set_window and windows_capture_kind calls explored on a platforms Capture
MaxCaptureCalls == 2
\* frames sent to the hub when their processing is studied
MaxEncodeFrames == 1
\* frames the window backend sends while the processing task falls behind
MaxLagFrames == 130
\* calls, frames and milliseconds explored when capture time is counted
MaxTimedCalls == 2
MaxTimedFrames == 2
MaxCaptureTime == 2
\* frames and stop_capture calls explored when the processing task is stopped
MaxStopFrames == 3
MaxStopCalls == 1
\* calls of MinimapService made one at a time when the service is restarted
MaxRestartCalls == 3
\* calls of ImageProcessingService, and frames sent meanwhile
MaxImageCalls == 3
MaxImageFrames == 1
MaxTimerCalls == 3

\* Option values: None, or Some(x) holding x
None == <<>>
Some(x) == <<x>>
Get(o) == o[1]
\* ImageProcessingService::new: not processing, no receiver stored, no task
NoImageService ==
    [is_processing |-> FALSE, frame_receiver |-> None,
     metrics |-> [frames_processed |-> 0, frames_dropped |-> 0, feature_detections |-> 0],
     tasks |-> <<>>]
\* MinimapService::new of services/minimap.rs: no stop sender, no loop
NoTimerService == [stop_tx |-> None, loops |-> <<>>]
\* window titles a caller may ask for; NoSuchWindow matches no window
Windows == {"A", "B"}
NoSuchWindow == "X"
Titles == Windows \cup {NoSuchWindow}
\* API callers (UI tasks, tauri commands, other services)
Procs == {"p1", "p2"}
\* independent receivers obtained from GraphicsCaptureService::subscribe
Subscribers == {"s1", "s2"}

VARIABLES
    \* ---- tokio broadcast channel held in frame_broadcast
    hubLog,             \* the frames the channel accepted, by position: their ids
    sent,               \* number of send attempts made by the capture backends
    lastSrc,            \* the backend that made the last send attempt
    subs,               \* receivers handed out by subscribe(): None or a cursor
    \* ---- CaptureMetrics
    frames_captured, frames_dropped, active_subscribers,
    \* ---- GraphicsCaptureService
    capture_control,    \* None or the control of the capture thread held
    current_window,     \* None or the window last bound
    dxgi_capture,       \* None or "dxgi": the DxgiCapture stored
    dxgiLock,           \* holder of the dxgi_capture mutex: None, a caller, "task"
    dxgiTasks,          \* the tasks spawned by start_dxgi_capture
    threads,            \* capture threads started by start_free_threaded
    \* ---- MinimapService
    current_window_title, frame_receiver, frame_sender,
    is_processing, is_stopping,
    metrics,            \* MinimapMetrics: frames_processed, frames_dropped
    loops,              \* processing tasks spawned by start_capture
    \* ---- callers
    pc,                 \* where each caller stands in the code
    stack,              \* return addresses of the calls in progress
    op, arg,            \* the API call a caller is making, and its title
    ret,                \* result of the call that returned last
    local,              \* a caller's local value (a control, a skipped stop)
    calls,              \* number of API calls made so far
    \* ---- history of what the callers and receivers observed
    subLog,             \* per receiver: what its receives returned
    lastDone,           \* the API call that completed last
    \* ---- DxgiDesktopDuplication and the code that drives it
    duplication,        \* the engine's session: None (Uninitialized) or Some
    dxLoop,             \* where the driver of the engine stands
    dxReturned,         \* the engine call made last and what it returned
    dxCalls,            \* number of engine calls made so far
    dxRested,           \* start_capture_loop has begun or slept since its last capture_frame
    dxReports,          \* errors printed by the task that runs start_capture_loop
    dxLost,             \* access was lost and no initialization has succeeded since
    \* ---- CaptureMetrics, the time spent capturing
    total_capture_time_ms,
    \* ---- TextureProcessor (core/platforms)
    gpu_processing_enabled,
    extraction,         \* the extract_frame_data call in progress or made last
    \* ---- Capture (core/platforms)
    capture,            \* the Capture a caller owns, and its set_window in progress
    \* ---- ImageProcessingService
    imageService,       \* its running flag, stored receiver, metrics and tasks
    \* ---- MinimapService driven by a timer (services/minimap.rs)
    timerService        \* its stop_tx and the capture loops it spawned

hubVars == <<hubLog, sent, lastSrc, subs>>
metricVars == <<frames_captured, frames_dropped, active_subscribers>>
gfxVars == <<capture_control, current_window, dxgi_capture, dxgiLock, dxgiTasks, threads>>
mmVars == <<current_window_title, frame_receiver, frame_sender, is_processing, is_stopping, metrics, loops>>
procVars == <<pc, stack, op, arg, ret, local, calls, lastDone>>
dxVars == <<duplication, dxLoop, dxReturned, dxCalls, dxRested, dxReports, dxLost>>
platVars == <<gpu_processing_enabled, extraction, capture>>
svcVars == <<imageService, timerService>>
sideVars == <<total_capture_time_ms, platVars, svcVars>>
vars == <<hubVars, metricVars, gfxVars, mmVars, procVars, subLog, dxVars, sideVars>>

(***************************************************************************)
(* tokio::sync::broadcast as used through frame_broadcast.                 *)
(***************************************************************************)
RECURSIVE NextPowerOfTwoFrom(_, _)
NextPowerOfTwoFrom(p, n) == IF p >= n THEN p ELSE NextPowerOfTwoFrom(2 * p, n)

\* a channel that keeps exactly the capacity it was asked for
ExactCapacity == HubCapacity

\* broadcast::channel(capacity) allocates capacity.next_power_of_two() slots
BufferLen == NextPowerOfTwoFrom(1, HubCapacity)

HubTail == Len(hubLog)

\* position of the oldest frame the channel still retains
HubOldest == IF HubTail > BufferLen THEN HubTail - BufferLen ELSE 0

LiveLoops == {i \in DOMAIN loops : loops[i].pc # "done"}
\* the tasks of ImageProcessingService that still own their receiver
LiveImageTasks == {i \in DOMAIN imageService.tasks : imageService.tasks[i].pc # "done"}

\* Sender::receiver_count(): every Receiver not yet dropped
ReceiverCount ==
    Cardinality({s \in Subscribers : subs[s] # None})
    + (IF frame_receiver # None THEN 1 ELSE 0)
    + Cardinality(LiveLoops)
    + (IF imageService.frame_receiver # None THEN 1 ELSE 0)
    + Cardinality(LiveImageTasks)

\* a receive that hands out only the newest frame, as a latest-value channel
HubRecvLatest(next) ==
    IF next < HubTail
    THEN [kind |-> "ok", skipped |-> 0, frame |-> Some(hubLog[HubTail]), next |-> HubTail]
    ELSE [kind |-> "empty", skipped |-> 0, frame |-> None, next |-> next]

\* Receiver::recv() for a receiver whose cursor is next: a frame, a lag notice
\* that moves the cursor to the oldest retained frame, or nothing yet
HubRecv(next) ==
    IF next < HubOldest
    THEN [kind |-> "lagged", skipped |-> HubOldest - next, frame |-> None, next |-> HubOldest]
    ELSE IF next < HubTail
    THEN [kind |-> "ok", skipped |-> 0, frame |-> Some(hubLog[next + 1]), next |-> next + 1]
    ELSE [kind |-> "empty", skipped |-> 0, frame |-> None, next |-> next]

\* Sender::send(frame) returns Err when no receiver exists
SendOk == ReceiverCount > 0

\* a send that waits while the slot it needs is still unread by a receiver,
\* as a bounded queue does
HubSendWaits(frame) ==
    /\ \A s \in Subscribers : subs[s] # None => HubTail - Get(subs[s]) < BufferLen
    /\ frame_receiver # None => HubTail - Get(frame_receiver) < BufferLen
    /\ \A i \in LiveLoops : HubTail - loops[i].next < BufferLen
    /\ hubLog' = IF SendOk THEN Append(hubLog, frame) ELSE hubLog

\* Sender::send(frame): stores the frame unless no receiver exists; it takes
\* the next slot whatever the receivers' cursors are and never waits
HubSend(frame) ==
    hubLog' = IF SendOk THEN Append(hubLog, frame) ELSE hubLog

\* a publish that counts a frame sent to no receiver as neither captured
\* nor dropped
PublishNoReceiverUncounted(src, limit) ==
    /\ sent < limit
    /\ sent' = sent + 1
    /\ active_subscribers' = ReceiverCount
    /\ lastSrc' = src
    /\ HubSend(sent)
    /\ frames_captured' = IF SendOk THEN frames_captured + 1 ELSE frames_captured
    /\ frames_dropped' = frames_dropped

\* the publish of FrameHandler::on_frame_arrived and of the DXGI loop:
\* receiver_count() into active_subscribers, send, then one of the counters
Publish(src, limit) ==
    /\ sent < limit
    /\ sent' = sent + 1
    /\ active_subscribers' = ReceiverCount
    /\ lastSrc' = src
    /\ HubSend(sent)
    /\ frames_captured' = IF SendOk THEN frames_captured + 1 ELSE frames_captured
    /\ frames_dropped' = IF SendOk THEN frames_dropped ELSE frames_dropped + 1

\* the same publish, of a frame given with its format, size and data
PublishFrame(src, limit, frame) ==
    /\ sent < limit
    /\ sent' = sent + 1
    /\ active_subscribers' = ReceiverCount
    /\ lastSrc' = src
    /\ HubSend(frame)
    /\ frames_captured' = IF SendOk THEN frames_captured + 1 ELSE frames_captured
    /\ frames_dropped' = IF SendOk THEN frames_dropped ELSE frames_dropped + 1

(***************************************************************************)
(* Callers: each is at a place of the code, with the calls in progress.    *)
(***************************************************************************)
Idle == "idle"

Step(p, l) ==
    /\ pc' = [pc EXCEPT ![p] = l]
    /\ UNCHANGED <<stack, op, arg, ret, local, calls, lastDone>>

\* call a function of the services: continue at target, come back at back
Call(p, target, back) ==
    /\ pc' = [pc EXCEPT ![p] = target]
    /\ stack' = [stack EXCEPT ![p] = <<back>> \o @]
    /\ UNCHANGED <<op, arg, ret, local, calls, lastDone>>

\* the places where a caller reads the result of the call that returned
ReadsResult == {"sw_subscribe"}

\* return r ("ok", "err", or "skipped": Ok from the guard of stop_capture);
\* an API call that returns is recorded in lastDone
Return(p, r) ==
    /\ local' = [local EXCEPT ![p] = None]
    /\ calls' = calls
    /\ IF stack[p] = <<>>
       THEN /\ pc' = [pc EXCEPT ![p] = Idle]
            /\ op' = [op EXCEPT ![p] = Idle]
            /\ arg' = [arg EXCEPT ![p] = None]
            /\ ret' = [ret EXCEPT ![p] = "none"]
            /\ lastDone' = [op |-> op[p], arg |-> arg[p], res |-> r]
            /\ stack' = stack
       ELSE /\ pc' = [pc EXCEPT ![p] = Head(stack[p])]
            /\ stack' = [stack EXCEPT ![p] = Tail(@)]
            /\ ret' = [ret EXCEPT ![p] =
                    IF Head(stack[p]) \in ReadsResult THEN r ELSE "none"]
            /\ UNCHANGED <<op, arg, lastDone>>

\* an API call begins at entry, with the places it goes on to after the
\* calls it makes first
Begin(p, name, title, entry, after, limit) ==
    /\ pc[p] = Idle
    /\ calls < limit
    /\ calls' = calls + 1
    /\ pc' = [pc EXCEPT ![p] = entry]
    /\ stack' = [stack EXCEPT ![p] = after]
    /\ op' = [op EXCEPT ![p] = name]
    /\ arg' = [arg EXCEPT ![p] = title]
    /\ UNCHANGED <<ret, local, lastDone>>

(***************************************************************************)
(* GraphicsCaptureService                                                  *)
(***************************************************************************)
RunningThreads == {i \in DOMAIN threads : threads[i].running}

\* start_window_capture: Window::from_contains_name, then current_window
SwcFind(p) ==
    /\ pc[p] = "swc_find"
    /\ IF Get(arg[p]) \in Windows
       THEN /\ current_window' = arg[p]
            /\ Step(p, "swc_start")
       ELSE /\ current_window' = current_window
            /\ Return(p, "err")
    /\ UNCHANGED <<sideVars, dxVars, hubVars, metricVars, mmVars, subLog>>
    /\ UNCHANGED <<capture_control, dxgi_capture, dxgiLock, dxgiTasks, threads>>

\* start_window_capture: FrameHandler::start_free_threaded succeeds and the
\* capture thread of the window runs; others and held keep what was running
\* and what control the service held at that moment
SwcStart(p) ==
    /\ pc[p] = "swc_start"
    /\ threads' = Append(threads,
            [win |-> Get(arg[p]), running |-> TRUE, others |-> RunningThreads,
             held |-> capture_control])
    /\ pc' = [pc EXCEPT ![p] = "swc_store"]
    /\ local' = [local EXCEPT ![p] = Some(Len(threads) + 1)]
    /\ UNCHANGED <<stack, op, arg, ret, calls, lastDone>>
    /\ UNCHANGED <<sideVars, dxVars, hubVars, metricVars, mmVars, subLog>>
    /\ UNCHANGED <<capture_control, current_window, dxgi_capture, dxgiLock, dxgiTasks>>

\* start_window_capture: FrameHandler::start_free_threaded fails
SwcStartFails(p) ==
    /\ pc[p] = "swc_start"
    /\ Return(p, "err")
    /\ UNCHANGED <<sideVars, dxVars, hubVars, metricVars, gfxVars, mmVars, subLog>>

\* start_window_capture: the new control replaces the one held, which is
\* dropped without stop(): its thread keeps running
SwcStore(p) ==
    /\ pc[p] = "swc_store"
    /\ capture_control' = local[p]
    /\ Return(p, "ok")
    /\ UNCHANGED <<sideVars, dxVars, hubVars, metricVars, mmVars, subLog>>
    /\ UNCHANGED <<current_window, dxgi_capture, dxgiLock, dxgiTasks, threads>>

\* a start_dxgi_capture that stores a capture although DxgiCapture::new failed
SdxNewFailureStores(p) ==
    /\ pc[p] = "sdx_new"
    /\ \/ /\ Step(p, "sdx_store")
          /\ dxgi_capture' = dxgi_capture
       \/ /\ Return(p, "err")
          /\ dxgi_capture' = Some("dxgi")
    /\ UNCHANGED <<sideVars, dxVars, hubVars, metricVars, mmVars, subLog>>
    /\ UNCHANGED <<capture_control, current_window, dxgiLock, dxgiTasks, threads>>

\* start_dxgi_capture: DxgiCapture::new succeeds or fails
SdxNew(p) ==
    /\ pc[p] = "sdx_new"
    /\ \/ Step(p, "sdx_store")
       \/ Return(p, "err")
    /\ UNCHANGED <<sideVars, dxVars, hubVars, metricVars, gfxVars, mmVars, subLog>>

(***************************************************************************)
(* is_capturing: capture_control.lock().await.is_some() ||                 *)
(* dxgi_capture.lock().await.is_some(). The second lock is only taken when *)
(* no control is held, and is granted only when no DXGI task holds the     *)
(* guard.                                                                  *)
(***************************************************************************)
\* is_capturing can return in this state
IsCapturingReturns == capture_control # None \/ dxgiLock = None
\* the value is_capturing returns
IsCapturing == capture_control # None \/ dxgi_capture # None

\* start_dxgi_capture: store the capture under the dxgi_capture mutex and
\* spawn the task that runs its loop
SdxStore(p) ==
    /\ pc[p] = "sdx_store"
    /\ dxgiLock = None
    /\ dxgi_capture' = Some("dxgi")
    /\ dxgiTasks' = Append(dxgiTasks, "lock")
    /\ Return(p, "ok")
    /\ UNCHANGED <<sideVars, dxVars, hubVars, metricVars, mmVars, subLog>>
    /\ UNCHANGED <<capture_control, current_window, dxgiLock, threads>>

\* a stop_capture that lets go of the control without stopping its thread
GsControlKeepsThread(p) ==
    /\ pc[p] = "gs_control"
    /\ capture_control' = None
    /\ threads' = threads
    /\ Step(p, "gs_dxgi")
    /\ UNCHANGED <<sideVars, dxVars, hubVars, metricVars, mmVars, subLog>>
    /\ UNCHANGED <<current_window, dxgi_capture, dxgiLock, dxgiTasks>>

\* stop_capture: take the control held and stop its thread
GsControl(p) ==
    /\ pc[p] = "gs_control"
    /\ capture_control' = None
    /\ threads' = IF capture_control = None THEN threads
                  ELSE [threads EXCEPT ![Get(capture_control)].running = FALSE]
    /\ Step(p, "gs_dxgi")
    /\ UNCHANGED <<sideVars, dxVars, hubVars, metricVars, mmVars, subLog>>
    /\ UNCHANGED <<current_window, dxgi_capture, dxgiLock, dxgiTasks>>

\* stop_capture: lock dxgi_capture and empty it
GsDxgi(p) ==
    /\ pc[p] = "gs_dxgi"
    /\ dxgiLock = None
    /\ dxgi_capture' = None
    /\ Return(p, "ok")
    /\ UNCHANGED <<sideVars, dxVars, hubVars, metricVars, mmVars, subLog>>
    /\ UNCHANGED <<capture_control, current_window, dxgiLock, dxgiTasks, threads>>

\* FrameHandler::on_frame_arrived on the thread of a running capture
OnFrameArrived(c, limit) ==
    /\ c \in RunningThreads
    /\ Publish([kind |-> "window", thread |-> c], limit)
    /\ UNCHANGED <<sideVars, dxVars, subs, gfxVars, mmVars, procVars, subLog>>

\* the task spawned by start_dxgi_capture locks dxgi_capture; it keeps the
\* guard for as long as start_capture_loop runs
DxgiTaskLock(i) ==
    /\ i \in DOMAIN dxgiTasks
    /\ dxgiTasks[i] = "lock"
    /\ dxgiLock = None
    /\ IF dxgi_capture = None
       THEN /\ dxgiTasks' = [dxgiTasks EXCEPT ![i] = "done"]
            /\ dxgiLock' = dxgiLock
       ELSE /\ dxgiTasks' = [dxgiTasks EXCEPT ![i] = "loop"]
            /\ dxgiLock' = Some(i)
    /\ UNCHANGED <<sideVars, dxVars, hubVars, metricVars, mmVars, procVars, subLog>>
    /\ UNCHANGED <<capture_control, current_window, dxgi_capture, threads>>

\* start_capture_loop: a frame is captured, extracted and published
DxgiLoopFrame(i, limit) ==
    /\ i \in DOMAIN dxgiTasks
    /\ dxgiTasks[i] = "loop"
    /\ Publish([kind |-> "dxgi", thread |-> 0], limit)
    /\ dxgiTasks' = [dxgiTasks EXCEPT ![i] = "sleep"]
    /\ UNCHANGED <<sideVars, dxVars, subs, mmVars, procVars, subLog>>
    /\ UNCHANGED <<capture_control, current_window, dxgi_capture, dxgiLock, threads>>

\* start_capture_loop: a frame is captured but extract_frame_data fails
DxgiLoopSkip(i) ==
    /\ i \in DOMAIN dxgiTasks
    /\ dxgiTasks[i] = "loop"
    /\ dxgiTasks' = [dxgiTasks EXCEPT ![i] = "sleep"]
    /\ UNCHANGED <<sideVars, dxVars, hubVars, metricVars, mmVars, procVars, subLog>>
    /\ UNCHANGED <<capture_control, current_window, dxgi_capture, dxgiLock, threads>>

\* start_capture_loop: the 33 ms sleep ends
DxgiLoopWake(i) ==
    /\ i \in DOMAIN dxgiTasks
    /\ dxgiTasks[i] = "sleep"
    /\ dxgiTasks' = [dxgiTasks EXCEPT ![i] = "loop"]
    /\ UNCHANGED <<sideVars, dxVars, hubVars, metricVars, mmVars, procVars, subLog>>
    /\ UNCHANGED <<capture_control, current_window, dxgi_capture, dxgiLock, threads>>

\* start_capture_loop returns Err (a failed re-initialisation, another DXGI
\* error): the task ends and its guard is released; dxgi_capture stays
DxgiLoopFails(i) ==
    /\ i \in DOMAIN dxgiTasks
    /\ dxgiTasks[i] = "loop"
    /\ dxgiTasks' = [dxgiTasks EXCEPT ![i] = "done"]
    /\ dxgiLock' = None
    /\ UNCHANGED <<sideVars, dxVars, hubVars, metricVars, mmVars, procVars, subLog>>
    /\ UNCHANGED <<capture_control, current_window, dxgi_capture, threads>>

(***************************************************************************)
(* MinimapService                                                          *)
(***************************************************************************)
\* a guard that is tested but never set
StGuardNeverSet(p) ==
    /\ pc[p] = "st_guard"
    /\ IF is_stopping
       THEN Return(p, "skipped")
       ELSE Step(p, "st_processing")
    /\ UNCHANGED <<sideVars, dxVars, hubVars, metricVars, gfxVars, mmVars, subLog>>

\* stop_capture: the is_stopping guard, tested and set under one lock
StGuard(p) ==
    /\ pc[p] = "st_guard"
    /\ IF is_stopping
       THEN /\ Return(p, "skipped")
            /\ is_stopping' = is_stopping
       ELSE /\ is_stopping' = TRUE
            /\ Step(p, "st_processing")
    /\ UNCHANGED <<sideVars, dxVars, hubVars, metricVars, gfxVars, subLog>>
    /\ UNCHANGED <<current_window_title, frame_receiver, frame_sender,
                   is_processing, metrics, loops>>

\* stop_capture: clear the running flag; the 100 ms settle delay follows,
\* during which the other tasks take whatever steps they can
StProcessing(p) ==
    /\ pc[p] = "st_processing"
    /\ is_processing' = FALSE
    /\ Step(p, "st_title")
    /\ UNCHANGED <<sideVars, dxVars, hubVars, metricVars, gfxVars, subLog>>
    /\ UNCHANGED <<current_window_title, frame_receiver, frame_sender,
                   is_stopping, metrics, loops>>

\* stop_capture: clear the target title
StTitle(p) ==
    /\ pc[p] = "st_title"
    /\ current_window_title' = None
    /\ Step(p, "st_receiver")
    /\ UNCHANGED <<sideVars, dxVars, hubVars, metricVars, gfxVars, subLog>>
    /\ UNCHANGED <<frame_receiver, frame_sender, is_processing, is_stopping,
                   metrics, loops>>

\* a stop_capture that leaves the stored receiver in place
StReceiverKeeps(p) ==
    /\ pc[p] = "st_receiver"
    /\ frame_receiver' = frame_receiver
    /\ Step(p, "st_send")
    /\ UNCHANGED <<sideVars, dxVars, hubVars, metricVars, gfxVars, subLog>>
    /\ UNCHANGED <<current_window_title, frame_sender, is_processing,
                   is_stopping, metrics, loops>>

\* stop_capture: drop the stored subscription
StReceiver(p) ==
    /\ pc[p] = "st_receiver"
    /\ frame_receiver' = None
    /\ Step(p, "st_send")
    /\ UNCHANGED <<sideVars, dxVars, hubVars, metricVars, gfxVars, subLog>>
    /\ UNCHANGED <<current_window_title, frame_sender, is_processing,
                   is_stopping, metrics, loops>>

\* stop_capture: publish the empty value, then call the graphics service
StSend(p) ==
    /\ pc[p] = "st_send"
    /\ frame_sender' = None
    /\ Call(p, "gs_control", "st_reset")
    /\ UNCHANGED <<sideVars, dxVars, hubVars, metricVars, gfxVars, subLog>>
    /\ UNCHANGED <<current_window_title, frame_receiver, is_processing,
                   is_stopping, metrics, loops>>

\* stop_capture: reset the stopping flag and return Ok
StReset(p) ==
    /\ pc[p] = "st_reset"
    /\ is_stopping' = FALSE
    /\ Return(p, "ok")
    /\ UNCHANGED <<sideVars, dxVars, hubVars, metricVars, gfxVars, subLog>>
    /\ UNCHANGED <<current_window_title, frame_receiver, frame_sender,
                   is_processing, metrics, loops>>

\* set_window: after stop_capture and start_window_capture, give up if the
\* latter failed, else subscribe and store the receiver (the one stored
\* before is dropped)
SwSubscribe(p) ==
    /\ pc[p] = "sw_subscribe"
    /\ IF ret[p] = "err"
       THEN /\ Return(p, "err")
            /\ frame_receiver' = frame_receiver
       ELSE /\ frame_receiver' = Some(HubTail)
            /\ Step(p, "sw_title")
    /\ UNCHANGED <<sideVars, dxVars, hubVars, metricVars, gfxVars, subLog>>
    /\ UNCHANGED <<current_window_title, frame_sender, is_processing,
                   is_stopping, metrics, loops>>

\* set_window: store the title, then go on as start_capture
SwTitle(p) ==
    /\ pc[p] = "sw_title"
    /\ current_window_title' = arg[p]
    /\ Step(p, "sc_reset")
    /\ UNCHANGED <<sideVars, dxVars, hubVars, metricVars, gfxVars, subLog>>
    /\ UNCHANGED <<frame_receiver, frame_sender, is_processing, is_stopping,
                   metrics, loops>>

\* start_capture: reset the stopping flag
ScReset(p) ==
    /\ pc[p] = "sc_reset"
    /\ is_stopping' = FALSE
    /\ Step(p, "sc_check")
    /\ UNCHANGED <<sideVars, dxVars, hubVars, metricVars, gfxVars, subLog>>
    /\ UNCHANGED <<current_window_title, frame_receiver, frame_sender,
                   is_processing, metrics, loops>>

\* start_capture: if the running flag is set, stop_capture and a 150 ms
\* cleanup delay come first
ScCheck(p) ==
    /\ pc[p] = "sc_check"
    /\ IF is_processing
       THEN Call(p, "st_guard", "sc_resubscribe")
       ELSE Step(p, "sc_resubscribe")
    /\ UNCHANGED <<sideVars, dxVars, hubVars, metricVars, gfxVars, mmVars, subLog>>

\* a start_capture that spawns its task although no receiver is stored
ScResubscribeSpawnsWithout(p) ==
    /\ pc[p] = "sc_resubscribe"
    /\ loops' = Append(loops, [pc |-> "new", next |-> HubTail, frame |-> None])
    /\ pc' = [pc EXCEPT ![p] = "sc_spawn"]
    /\ local' = [local EXCEPT ![p] = Some(Len(loops) + 1)]
    /\ UNCHANGED <<stack, op, arg, ret, calls, lastDone>>
    /\ UNCHANGED <<sideVars, dxVars, hubVars, metricVars, gfxVars, subLog>>
    /\ UNCHANGED <<current_window_title, frame_receiver, frame_sender,
                   is_processing, is_stopping, metrics>>

\* start_capture: resubscribe from the stored receiver, or fail without one;
\* the new receiver starts at the tail and belongs to the task to be spawned
ScResubscribe(p) ==
    /\ pc[p] = "sc_resubscribe"
    /\ IF frame_receiver = None
       THEN /\ Return(p, "err")
            /\ loops' = loops
       ELSE /\ loops' = Append(loops, [pc |-> "new", next |-> HubTail, frame |-> None])
            /\ pc' = [pc EXCEPT ![p] = "sc_spawn"]
            /\ local' = [local EXCEPT ![p] = Some(Len(loops) + 1)]
            /\ UNCHANGED <<stack, op, arg, ret, calls, lastDone>>
    /\ UNCHANGED <<sideVars, dxVars, hubVars, metricVars, gfxVars, subLog>>
    /\ UNCHANGED <<current_window_title, frame_receiver, frame_sender,
                   is_processing, is_stopping, metrics>>

\* start_capture: set the running flag and spawn the processing task
ScSpawn(p) ==
    /\ pc[p] = "sc_spawn"
    /\ is_processing' = TRUE
    /\ loops' = [loops EXCEPT ![Get(local[p])].pc = "check"]
    /\ Return(p, "ok")
    /\ UNCHANGED <<sideVars, dxVars, hubVars, metricVars, gfxVars, subLog>>
    /\ UNCHANGED <<current_window_title, frame_receiver, frame_sender,
                   is_stopping, metrics>>

\* a processing task that goes on to recv() whatever the running flag says
LoopCheckIgnoresFlag(i) ==
    /\ i \in DOMAIN loops
    /\ loops[i].pc = "check"
    /\ loops' = [loops EXCEPT ![i] = [@ EXCEPT !.pc = "recv"]]
    /\ UNCHANGED <<sideVars, dxVars, hubVars, metricVars, gfxVars, procVars, subLog>>
    /\ UNCHANGED <<current_window_title, frame_receiver, frame_sender,
                   is_processing, is_stopping, metrics>>

\* the processing task tests the running flag; it ends, and drops its
\* receiver, when the flag is clear
LoopCheck(i) ==
    /\ i \in DOMAIN loops
    /\ loops[i].pc = "check"
    /\ loops' = [loops EXCEPT ![i] =
            IF is_processing THEN [@ EXCEPT !.pc = "recv"]
            ELSE [pc |-> "done", next |-> 0, frame |-> None]]
    /\ UNCHANGED <<sideVars, dxVars, hubVars, metricVars, gfxVars, procVars, subLog>>
    /\ UNCHANGED <<current_window_title, frame_receiver, frame_sender,
                   is_processing, is_stopping, metrics>>

\* a processing task that counts a lag notice as one dropped frame
LoopRecvLagCountsOne(i) ==
    /\ i \in DOMAIN loops
    /\ loops[i].pc = "recv"
    /\ LET r == HubRecv(loops[i].next) IN
        /\ r.kind # "empty"
        /\ loops' = [loops EXCEPT ![i] =
                [pc |-> IF r.kind = "ok" THEN "process" ELSE "check",
                 next |-> r.next, frame |-> r.frame]]
        /\ metrics' = [metrics EXCEPT !.frames_dropped =
                IF r.kind = "lagged" THEN @ + 1 ELSE @]
    /\ UNCHANGED <<sideVars, dxVars, hubVars, metricVars, gfxVars, procVars, subLog>>
    /\ UNCHANGED <<current_window_title, frame_receiver, frame_sender,
                   is_processing, is_stopping>>

\* the processing task waits in recv(): a frame, or a lag notice whose skip
\* count goes to frames_dropped. The channel is never closed: the service
\* keeps its Sender
LoopRecv(i) ==
    /\ i \in DOMAIN loops
    /\ loops[i].pc = "recv"
    /\ LET r == HubRecv(loops[i].next) IN
        /\ r.kind # "empty"
        /\ loops' = [loops EXCEPT ![i] =
                [pc |-> IF r.kind = "ok" THEN "process" ELSE "check",
                 next |-> r.next, frame |-> r.frame]]
        /\ metrics' = [metrics EXCEPT !.frames_dropped = @ + r.skipped]
    /\ UNCHANGED <<sideVars, dxVars, hubVars, metricVars, gfxVars, procVars, subLog>>
    /\ UNCHANGED <<current_window_title, frame_receiver, frame_sender,
                   is_processing, is_stopping>>

\* process_minimap_frame succeeds: the result goes to the watch channel
LoopProcess(i) ==
    /\ i \in DOMAIN loops
    /\ loops[i].pc = "process"
    /\ frame_sender' = loops[i].frame
    /\ metrics' = [metrics EXCEPT !.frames_processed = @ + 1]
    /\ loops' = [loops EXCEPT ![i] = [pc |-> "check", next |-> @.next, frame |-> None]]
    /\ UNCHANGED <<sideVars, dxVars, hubVars, metricVars, gfxVars, procVars, subLog>>
    /\ UNCHANGED <<current_window_title, frame_receiver, is_processing, is_stopping>>

\* process_minimap_frame fails (empty data, encoder error): frame dropped
LoopProcessFails(i) ==
    /\ i \in DOMAIN loops
    /\ loops[i].pc = "process"
    /\ metrics' = [metrics EXCEPT !.frames_dropped = @ + 1]
    /\ loops' = [loops EXCEPT ![i] = [pc |-> "check", next |-> @.next, frame |-> None]]
    /\ UNCHANGED <<sideVars, dxVars, hubVars, metricVars, gfxVars, procVars, subLog>>
    /\ UNCHANGED <<current_window_title, frame_receiver, frame_sender,
                   is_processing, is_stopping>>

(***************************************************************************)
(* MinimapService::process_minimap_frame: what the processing loop does    *)
(* with one CapturedFrame.                                                 *)
(***************************************************************************)
\* display target of process_minimap_frame, the pixel count above which an
\* Rgb8 frame is downsampled, the JPEG quality, and the largest width or
\* height a JPEG can have
TargetWidth == 800
TargetHeight == 450
RgbLargeImage == 1000000
JpegQuality == 30
JpegMaxDimension == 65535

\* (the u32 products of the code stay far below 2^32 for the frames explored)
\* a Vec<u8>: its length and what identifies its content
Bytes(len, content) == <<"bytes", len, content>>
BytesLen(data) == data[2]
\* the JPEG stream an encoder produced: quality, width and height of the
\* image, and the pixels it was made from
Jpeg(width, height, content) == <<"jpeg", JpegQuality, width, height, content>>

FrameFormats == {"Bgra8", "Rgba8", "Rgb8", "Jpeg"}
BytesPerPixel(format) == IF format = "Rgb8" THEN 3 ELSE 4

EncodeOk(out) == [ok |-> TRUE, out |-> out, error |-> "none"]
EncodeErr(error) == [ok |-> FALSE, out |-> None, error |-> error]

\* JpegEncoder::new_with_quality(.., 30).encode(rgb, width, height, Rgb8):
\* refuses a buffer that is not width * height * 3 bytes and dimensions
\* beyond 65535; else a JPEG of width x height
JpegEncode(rgbLen, width, height, content) ==
    IF rgbLen # width * height * 3 THEN EncodeErr("JPEG encode failed")
    ELSE IF width > JpegMaxDimension \/ height > JpegMaxDimension
    THEN EncodeErr("JPEG encode failed")
    ELSE EncodeOk(Jpeg(width, height, content))

\* the loops of downsample_and_encode and downsample_rgb_and_encode: the
\* number of target pixels whose source pixel lies inside data. The source
\* index grows with x and y, so all are inside when the last one is
DownsampledPixels(len, src_width, src_height, dst_width, dst_height, bpp) ==
    LET scale_x == src_width \div dst_width
        scale_y == src_height \div dst_height
        SrcIdx(x, y) == ((y * scale_y) * src_width + (x * scale_x)) * bpp
    IN  IF SrcIdx(dst_width - 1, dst_height - 1) + (bpp - 1) < len
        THEN dst_width * dst_height
        ELSE Cardinality({xy \in (0 .. dst_width - 1) \X (0 .. dst_height - 1) :
                            SrcIdx(xy[1], xy[2]) + (bpp - 1) < len})

\* downsample_and_encode / downsample_rgb_and_encode
DownsampleAndEncode(data, src_width, src_height, dst_width, dst_height, bpp) ==
    JpegEncode(3 * DownsampledPixels(BytesLen(data), src_width, src_height,
                                     dst_width, dst_height, bpp),
               dst_width, dst_height, data[3])

\* encode_frame_webp: chunks_exact(4) to RGB, then JPEG at the frame's size
EncodeFrameWebp(data, width, height) ==
    JpegEncode(3 * (BytesLen(data) \div 4), width, height, data[3])

\* encode_rgb_webp: JPEG at the frame's size
EncodeRgbWebp(data, width, height) ==
    JpegEncode(BytesLen(data), width, height, data[3])

\* a process_minimap_frame that encodes a Jpeg frame again
ProcessReencodesJpeg(frame) ==
    IF BytesLen(frame.data) = 0 THEN EncodeErr("Empty frame data")
    ELSE IF frame.format = "Jpeg"
    THEN EncodeOk(Jpeg(frame.width, frame.height, frame.data[3]))
    ELSE IF frame.format \in {"Rgba8", "Bgra8"}
    THEN IF frame.width > TargetWidth \/ frame.height > TargetHeight
         THEN DownsampleAndEncode(frame.data, frame.width, frame.height,
                                  TargetWidth, TargetHeight, 4)
         ELSE EncodeFrameWebp(frame.data, frame.width, frame.height)
    ELSE IF frame.width * frame.height > RgbLargeImage
         THEN DownsampleAndEncode(frame.data, frame.width, frame.height,
                                  TargetWidth, TargetHeight, 3)
         ELSE EncodeRgbWebp(frame.data, frame.width, frame.height)

\* process_minimap_frame: empty data is refused; a Jpeg frame is returned as
\* it is; Rgba8 and Bgra8 are downsampled when a dimension exceeds the
\* target; Rgb8 is downsampled when it has more than a million pixels
ProcessMinimapFrame(frame) ==
    IF BytesLen(frame.data) = 0 THEN EncodeErr("Empty frame data")
    ELSE IF frame.format = "Jpeg" THEN EncodeOk(frame.data)
    ELSE IF frame.format \in {"Rgba8", "Bgra8"}
    THEN IF frame.width > TargetWidth \/ frame.height > TargetHeight
         THEN DownsampleAndEncode(frame.data, frame.width, frame.height,
                                  TargetWidth, TargetHeight, 4)
         ELSE EncodeFrameWebp(frame.data, frame.width, frame.height)
    ELSE IF frame.width * frame.height > RgbLargeImage
         THEN DownsampleAndEncode(frame.data, frame.width, frame.height,
                                  TargetWidth, TargetHeight, 3)
         ELSE EncodeRgbWebp(frame.data, frame.width, frame.height)

\* a processing loop that ends when a frame cannot be processed
LoopProcessFrameFailureEnds(i) ==
    /\ i \in DOMAIN loops
    /\ loops[i].pc = "process"
    /\ LET r == ProcessMinimapFrame(Get(loops[i].frame)) IN
        /\ frame_sender' = IF r.ok THEN Some(r.out) ELSE frame_sender
        /\ metrics' = IF r.ok THEN [metrics EXCEPT !.frames_processed = @ + 1]
                      ELSE [metrics EXCEPT !.frames_dropped = @ + 1]
        /\ loops' = [loops EXCEPT ![i] =
                [pc |-> IF r.ok THEN "check" ELSE "done", next |-> @.next, frame |-> None]]
    /\ UNCHANGED <<sideVars, dxVars, hubVars, metricVars, gfxVars, procVars, subLog>>
    /\ UNCHANGED <<current_window_title, frame_receiver, is_processing, is_stopping>>

\* the processing task with a frame in hand: process_minimap_frame, then the
\* result goes to the watch channel and frames_processed counts it, or the
\* error is counted in frames_dropped; the loop goes to its next iteration
LoopProcessFrame(i) ==
    /\ i \in DOMAIN loops
    /\ loops[i].pc = "process"
    /\ LET r == ProcessMinimapFrame(Get(loops[i].frame)) IN
        /\ frame_sender' = IF r.ok THEN Some(r.out) ELSE frame_sender
        /\ metrics' = IF r.ok THEN [metrics EXCEPT !.frames_processed = @ + 1]
                      ELSE [metrics EXCEPT !.frames_dropped = @ + 1]
        /\ loops' = [loops EXCEPT ![i] = [pc |-> "check", next |-> @.next, frame |-> None]]
    /\ UNCHANGED <<sideVars, dxVars, hubVars, metricVars, gfxVars, procVars, subLog>>
    /\ UNCHANGED <<current_window_title, frame_receiver, is_processing, is_stopping>>

(***************************************************************************)
(* DxgiDesktopDuplication (core/platforms) and DxgiCapture's               *)
(* start_capture_loop that drives it, statement by statement.              *)
(***************************************************************************)
\* what IDXGIOutputDuplication::AcquireNextFrame can answer
AcquireOutcomes ==
    {"frame", "bad_resource", "no_resource", "WAIT_TIMEOUT", "ACCESS_LOST",
     "INVALID_CALL", "other"}

\* the session with no frame acquired, and with a frame acquired and not
\* released
Session == Some("session")
FrameHeld == Some("frame_held")

\* AcquireNextFrame can answer o: while a frame is held it refuses with
\* INVALID_CALL, unless access is lost
OsAnswers(o) == duplication = FrameHeld => o \in {"INVALID_CALL", "ACCESS_LOST"}

\* the session after capture_frame got answer o: cleared when access is
\* lost; left holding the frame when the cast of the resource fails, which
\* returns before ReleaseFrame; else as it was, the frame released
SessionAfter(o) ==
    IF duplication = None THEN None
    ELSE CASE o = "ACCESS_LOST" -> None
           [] o = "bad_resource" -> FrameHeld
           [] OTHER -> duplication

NotAcquired == "not_called"

\* capture_frame: what it returns when AcquireNextFrame answers o; without a
\* session it returns InvalidCall before any acquire
CaptureFrameResult(o) ==
    IF duplication = None THEN "InvalidCall"
    ELSE CASE o = "frame" -> "Some"
           [] o \in {"no_resource", "WAIT_TIMEOUT"} -> "None"
           [] o = "ACCESS_LOST" -> "AccessLost"
           [] o = "INVALID_CALL" -> "InvalidCall"
           [] OTHER -> "WindowsError"

\* a capture_frame that keeps its session when access is lost
CaptureFrameKeepsSession(o) ==
    /\ dxCalls' = dxCalls + 1
    /\ dxReturned' = [call |-> "capture_frame",
                      os |-> IF duplication = None THEN NotAcquired ELSE o,
                      res |-> CaptureFrameResult(o)]
    /\ duplication' = IF o = "ACCESS_LOST" THEN duplication ELSE SessionAfter(o)
    /\ dxLost' = (dxLost \/ CaptureFrameResult(o) = "AccessLost")

\* DxgiDesktopDuplication::capture_frame
CaptureFrame(o) ==
    /\ dxCalls' = dxCalls + 1
    /\ dxReturned' = [call |-> "capture_frame",
                      os |-> IF duplication = None THEN NotAcquired ELSE o,
                      res |-> CaptureFrameResult(o)]
    /\ duplication' = SessionAfter(o)
    /\ dxLost' = (dxLost \/ CaptureFrameResult(o) = "AccessLost")

\* DxgiDesktopDuplication::initialize_primary_output called with session d
\* in place: DuplicateOutput (or a step before it) succeeds or fails; a
\* failure leaves the session as it was
InitializeFrom(d, ok) ==
    /\ dxCalls' = dxCalls + 1
    /\ dxReturned' = [call |-> "initialize_primary_output", os |-> NotAcquired,
                      res |-> IF ok THEN "Ok" ELSE "DuplicationError"]
    /\ duplication' = IF ok THEN Session ELSE d
    /\ dxLost' = (dxLost /\ ~ok)

InitializePrimaryOutput(ok) == InitializeFrom(duplication, ok)

\* the engine used directly by its owner, in any order of calls
ClientCaptureFrame(o) ==
    /\ dxLoop = "client"
    /\ dxCalls < MaxDxgiCalls
    /\ duplication = None => o = "frame"
    /\ OsAnswers(o)
    /\ CaptureFrame(o)
    /\ UNCHANGED <<dxLoop, dxRested, dxReports>>
    /\ UNCHANGED <<sideVars, hubVars, metricVars, gfxVars, mmVars, procVars, subLog>>

ClientInitialize(ok) ==
    /\ dxLoop = "client"
    /\ dxCalls < MaxDxgiCalls
    /\ InitializePrimaryOutput(ok)
    /\ UNCHANGED <<dxLoop, dxRested, dxReports>>
    /\ UNCHANGED <<sideVars, hubVars, metricVars, gfxVars, mmVars, procVars, subLog>>

\* DxgiDesktopDuplication::reset
ClientReset ==
    /\ dxLoop = "client"
    /\ duplication # None
    /\ duplication' = None
    /\ UNCHANGED <<dxLoop, dxReturned, dxCalls, dxRested, dxReports, dxLost>>
    /\ UNCHANGED <<sideVars, hubVars, metricVars, gfxVars, mmVars, procVars, subLog>>

\* where start_capture_loop goes after capture_frame returned r
AfterCapture(r) ==
    CASE r = "Some" -> "frame"
      [] r = "None" -> "capture"
      [] r = "AccessLost" -> "recover"
      [] OTHER -> "failed"

\* start_capture_loop: the head of an iteration, capture_frame and the match
DxLoopCapture(o) ==
    /\ dxLoop = "capture"
    /\ dxCalls < MaxDxgiCalls
    /\ OsAnswers(o)
    /\ CaptureFrame(o)
    /\ dxLoop' = AfterCapture(CaptureFrameResult(o))
    /\ dxRested' = FALSE
    /\ UNCHANGED dxReports
    /\ UNCHANGED <<sideVars, hubVars, metricVars, gfxVars, mmVars, procVars, subLog>>

\* start_capture_loop, Ok(Some(texture)): the frame is extracted and published
DxLoopPublish ==
    /\ dxLoop = "frame"
    /\ Publish([kind |-> "dxgi", thread |-> 0], MaxDxgiCalls)
    /\ dxLoop' = "sleep"
    /\ UNCHANGED <<duplication, dxReturned, dxCalls, dxRested, dxReports, dxLost>>
    /\ UNCHANGED <<sideVars, subs, gfxVars, mmVars, procVars, subLog>>

\* start_capture_loop, Ok(Some(texture)): extract_frame_data fails
DxLoopExtractFails ==
    /\ dxLoop = "frame"
    /\ dxLoop' = "sleep"
    /\ UNCHANGED <<duplication, dxReturned, dxCalls, dxRested, dxReports, dxLost>>
    /\ UNCHANGED <<sideVars, hubVars, metricVars, gfxVars, mmVars, procVars, subLog>>

\* start_capture_loop: the 33 ms sleep at the end of the loop body
DxLoopSleep ==
    /\ dxLoop = "sleep"
    /\ dxLoop' = "capture"
    /\ dxRested' = TRUE
    /\ UNCHANGED <<duplication, dxReturned, dxCalls, dxReports, dxLost>>
    /\ UNCHANGED <<sideVars, hubVars, metricVars, gfxVars, mmVars, procVars, subLog>>

\* an AccessLost branch that counts the recovery as a dropped frame
DxLoopRecoverCountsDrop(ok) ==
    /\ dxLoop = "recover"
    /\ dxCalls < MaxDxgiCalls
    /\ InitializeFrom(None, ok)
    /\ dxLoop' = IF ok THEN "capture" ELSE "failed"
    /\ frames_dropped' = frames_dropped + 1
    /\ UNCHANGED <<dxRested, dxReports>>
    /\ UNCHANGED <<sideVars, hubVars, frames_captured, active_subscribers, gfxVars,
                   mmVars, procVars, subLog>>

\* an AccessLost branch that tries again when the re-initialization fails
DxLoopRecoverRetries(ok) ==
    /\ dxLoop = "recover"
    /\ dxCalls < MaxDxgiCalls
    /\ InitializeFrom(None, ok)
    /\ dxLoop' = "capture"
    /\ UNCHANGED <<dxRested, dxReports>>
    /\ UNCHANGED <<sideVars, hubVars, metricVars, gfxVars, mmVars, procVars, subLog>>

\* start_capture_loop, Err(AccessLost): reset, initialize_primary_output,
\* then continue, or return the error of the initialization
DxLoopRecover(ok) ==
    /\ dxLoop = "recover"
    /\ dxCalls < MaxDxgiCalls
    /\ InitializeFrom(None, ok)
    /\ dxLoop' = IF ok THEN "capture" ELSE "failed"
    /\ UNCHANGED <<dxRested, dxReports>>
    /\ UNCHANGED <<sideVars, hubVars, metricVars, gfxVars, mmVars, procVars, subLog>>

\* start_capture_loop has returned Err: the spawned task prints it and ends,
\* releasing its guard of dxgi_capture
DxLoopReport ==
    /\ dxLoop = "failed"
    /\ dxReports' = dxReports + 1
    /\ dxLoop' = "done"
    /\ dxgiTasks' = [i \in DOMAIN dxgiTasks |-> "done"]
    /\ dxgiLock' = None
    /\ UNCHANGED <<duplication, dxReturned, dxCalls, dxRested, dxLost>>
    /\ UNCHANGED <<sideVars, hubVars, metricVars, mmVars, procVars, subLog>>
    /\ UNCHANGED <<capture_control, current_window, dxgi_capture, threads>>

(***************************************************************************)
(* TextureProcessor (core/platforms): extract_frame_data over the GPU      *)
(* path and the CPU path.                                                  *)
(***************************************************************************)
TexOk(method) == [ok |-> TRUE, what |-> method]
TexErr(error) == [ok |-> FALSE, what |-> error]
NoTexResult == [ok |-> FALSE, what |-> "none"]

\* no extract_frame_data call made yet, no set_gpu_processing either
NoExtraction ==
    [at |-> "idle", direct |-> FALSE, paths |-> <<>>, gpu |-> NoTexResult,
     result |-> NoTexResult, calls |-> 0, sets |-> 0, logged |-> 0]

\* extract_with_gpu: a texture that is not USAGE_DEFAULT without CPU access
\* is refused; CreateTexture2D and Map failures become GpuProcessing errors
ExtractWithGpuResult(direct, created, mapped) ==
    IF ~direct THEN TexErr("GpuProcessing")
    ELSE IF ~created THEN TexErr("GpuProcessing")
    ELSE IF ~mapped THEN TexErr("GpuProcessing")
    ELSE TexOk("GpuOptimized")

\* extract_with_cpu: staging texture, copy, map, copy of the rows
ExtractWithCpuResult(created, mapped) ==
    IF ~created THEN TexErr("StagingTextureCreation")
    ELSE IF ~mapped THEN TexErr("TextureMapping")
    ELSE TexOk("CpuCopy")

\* set_gpu_processing(enabled), by the owner of the processor (&mut self)
SetGpuProcessing(enabled) ==
    /\ extraction.at \in {"idle", "done"}
    /\ extraction.sets < MaxGpuSwitches
    /\ gpu_processing_enabled' = enabled
    /\ extraction' = [extraction EXCEPT !.sets = @ + 1]
    /\ UNCHANGED <<svcVars, total_capture_time_ms, capture>>
    /\ UNCHANGED <<dxVars, hubVars, metricVars, gfxVars, mmVars, procVars, subLog>>

\* extract_frame_data is entered with a texture (direct: USAGE_DEFAULT and
\* no CPU access flags) and tests gpu_processing_enabled
ExtractFrameData(direct) ==
    /\ extraction.at \in {"idle", "done"}
    /\ extraction.calls < MaxExtractions
    /\ extraction' = [extraction EXCEPT
            !.at = IF gpu_processing_enabled THEN "gpu" ELSE "cpu",
            !.direct = direct, !.paths = <<>>, !.gpu = NoTexResult,
            !.result = NoTexResult, !.calls = @ + 1]
    /\ UNCHANGED <<svcVars, total_capture_time_ms, gpu_processing_enabled, capture>>
    /\ UNCHANGED <<dxVars, hubVars, metricVars, gfxVars, mmVars, procVars, subLog>>

\* an extract_frame_data that hands the GPU path's error to its caller
ExtractGpuReturnsError(created, mapped) ==
    /\ extraction.at = "gpu"
    /\ LET r == ExtractWithGpuResult(extraction.direct, created, mapped) IN
        extraction' = [extraction EXCEPT
            !.at = "done", !.paths = Append(@, "gpu"), !.gpu = r, !.result = r]
    /\ UNCHANGED <<svcVars, total_capture_time_ms, gpu_processing_enabled, capture>>
    /\ UNCHANGED <<dxVars, hubVars, metricVars, gfxVars, mmVars, procVars, subLog>>

\* extract_frame_data: match on extract_with_gpu; Ok is returned, Err is
\* printed to stderr and the call falls through to the CPU path
ExtractGpu(created, mapped) ==
    /\ extraction.at = "gpu"
    /\ LET r == ExtractWithGpuResult(extraction.direct, created, mapped) IN
        extraction' = [extraction EXCEPT
            !.at = IF r.ok THEN "done" ELSE "cpu",
            !.paths = Append(@, "gpu"),
            !.gpu = r,
            !.result = IF r.ok THEN r ELSE @,
            !.logged = IF r.ok THEN @ ELSE @ + 1]
    /\ UNCHANGED <<svcVars, total_capture_time_ms, gpu_processing_enabled, capture>>
    /\ UNCHANGED <<dxVars, hubVars, metricVars, gfxVars, mmVars, procVars, subLog>>

\* extract_frame_data: extract_with_cpu, whose result is the call's result
ExtractCpu(created, mapped) ==
    /\ extraction.at = "cpu"
    /\ extraction' = [extraction EXCEPT
            !.at = "done", !.paths = Append(@, "cpu"),
            !.result = ExtractWithCpuResult(created, mapped)]
    /\ UNCHANGED <<svcVars, total_capture_time_ms, gpu_processing_enabled, capture>>
    /\ UNCHANGED <<dxVars, hubVars, metricVars, gfxVars, mmVars, procVars, subLog>>

(***************************************************************************)
(* Capture (core/platforms): a window and the backend that captures it     *)
(***************************************************************************)
\* WindowsCaptureKind; Wgc carries a frame timeout, one value here
CaptureKinds == {"BitBlt", "BitBltArea", "Wgc"}

\* no Capture is followed
NoCapture ==
    [at |-> "none", window |-> None, windows |-> 0, windows_kind |-> "none",
     kind |-> "none", made |-> 0, backends |-> <<>>, calls |-> 0, ret |-> "none"]

\* Capture::new(window): a BitBlt backend for the window
CaptureNew(window) ==
    [at |-> "idle", window |-> Some(window), windows |-> 1,
     windows_kind |-> "BitBlt", kind |-> "none", made |-> 0,
     backends |-> <<[kind |-> "BitBlt", window |-> Some(window), live |-> TRUE]>>,
     calls |-> 0, ret |-> "none"]

\* the backends constructed and not yet dropped
LiveBackends == {b \in DOMAIN capture.backends : capture.backends[b].live}

\* set_window(window): self.window = window, then
\* windows_capture_kind(self.windows_kind) is entered
CaptureSetWindow(window) ==
    /\ capture.at = "idle"
    /\ capture.calls < MaxCaptureCalls
    /\ capture' = [capture EXCEPT !.at = "construct", !.window = Some(window),
                                  !.kind = capture.windows_kind,
                                  !.calls = @ + 1, !.ret = "none"]
    /\ UNCHANGED <<svcVars, total_capture_time_ms, gpu_processing_enabled, extraction>>
    /\ UNCHANGED <<dxVars, hubVars, metricVars, gfxVars, mmVars, procVars, subLog>>

\* windows_capture_kind(kind) called by the owner
CaptureWindowsCaptureKind(kind) ==
    /\ capture.at = "idle"
    /\ capture.calls < MaxCaptureCalls
    /\ capture' = [capture EXCEPT !.at = "construct", !.kind = kind,
                                  !.calls = @ + 1, !.ret = "none"]
    /\ UNCHANGED <<svcVars, total_capture_time_ms, gpu_processing_enabled, extraction>>
    /\ UNCHANGED <<dxVars, hubVars, metricVars, gfxVars, mmVars, procVars, subLog>>

\* windows_capture_kind: the right-hand side of `self.windows = match kind`
\* constructs the new backend while self.windows still holds the old one.
\* BitBltArea captures its own box window; WgcCapture::new may fail, and
\* the `?` returns with self.windows and self.windows_kind as they were
CaptureConstruct(ok) ==
    /\ capture.at = "construct"
    /\ ok \/ capture.kind = "Wgc"
    /\ capture' =
        IF ok
        THEN [capture EXCEPT
                !.at = "assign",
                !.made = Len(capture.backends) + 1,
                !.backends = Append(@,
                    [kind |-> capture.kind,
                     window |-> IF capture.kind = "BitBltArea" THEN Some("box")
                                ELSE capture.window,
                     live |-> TRUE])]
        ELSE [capture EXCEPT !.at = "idle", !.kind = "none", !.ret = "err"]
    /\ UNCHANGED <<svcVars, total_capture_time_ms, gpu_processing_enabled, extraction>>
    /\ UNCHANGED <<dxVars, hubVars, metricVars, gfxVars, mmVars, procVars, subLog>>

\* windows_capture_kind: the assignment drops the backend held and stores
\* the new one; then self.windows_kind = kind and Ok(())
CaptureAssign ==
    /\ capture.at = "assign"
    /\ capture' = [capture EXCEPT
            !.at = "idle",
            !.backends = [@ EXCEPT ![capture.windows].live = FALSE],
            !.windows = capture.made,
            !.windows_kind = capture.kind,
            !.kind = "none", !.made = 0, !.ret = "ok"]
    /\ UNCHANGED <<svcVars, total_capture_time_ms, gpu_processing_enabled, extraction>>
    /\ UNCHANGED <<dxVars, hubVars, metricVars, gfxVars, mmVars, procVars, subLog>>

(***************************************************************************)
(* Receivers handed to other consumers by GraphicsCaptureService::subscribe *)
(***************************************************************************)
\* subscribe(): a receiver whose cursor is the tail of the channel
Subscribe(s) ==
    /\ subs[s] = None
    /\ subs' = [subs EXCEPT ![s] = Some(HubTail)]
    /\ subLog' = [subLog EXCEPT ![s] = [kind |-> "subscribed", skipped |-> 0, frame |-> Some(sent - 1)]]
    /\ UNCHANGED <<sideVars, dxVars, hubLog, sent, lastSrc, metricVars, gfxVars, mmVars, procVars>>

\* recv() on a receiver returns: subLog keeps what it returned
SubRecv(s) ==
    /\ subs[s] # None
    /\ LET r == HubRecv(Get(subs[s])) IN
        /\ r.kind # "empty"
        /\ subs' = [subs EXCEPT ![s] = Some(r.next)]
        /\ subLog' = [subLog EXCEPT ![s] =
                [kind |-> r.kind, skipped |-> r.skipped,
                 frame |-> r.frame]]
    /\ UNCHANGED <<sideVars, dxVars, hubLog, sent, lastSrc, metricVars, gfxVars, mmVars, procVars>>

(***************************************************************************)
(* Initial states                                                          *)
(***************************************************************************)
NoSource == [kind |-> "none", thread |-> 0]
NoCall == [op |-> "none", arg |-> None, res |-> "none"]
NoReceive == [kind |-> "none", skipped |-> 0, frame |-> None]

\* GraphicsCaptureService::new and MinimapService::new, but for the
\* receivers handed out and the capture backends
QuietRest ==
    /\ hubLog = <<>> /\ sent = 0 /\ lastSrc = NoSource
    /\ frames_captured = 0 /\ frames_dropped = 0 /\ active_subscribers = 0
    /\ total_capture_time_ms = 0
    /\ imageService = NoImageService /\ timerService = NoTimerService
    /\ current_window_title = None /\ frame_receiver = None
    /\ frame_sender = None
    /\ is_processing = FALSE /\ is_stopping = FALSE
    /\ metrics = [frames_processed |-> 0, frames_dropped |-> 0]
    /\ loops = <<>>
    /\ pc = [p \in Procs |-> Idle] /\ stack = [p \in Procs |-> <<>>]
    /\ op = [p \in Procs |-> Idle] /\ arg = [p \in Procs |-> None]
    /\ ret = [p \in Procs |-> "none"] /\ local = [p \in Procs |-> None]
    /\ calls = 0
    /\ lastDone = NoCall

Subscribed == [kind |-> "subscribed", skipped |-> 0, frame |-> Some(-1)]

NoEngineCall == [call |-> "none", os |-> NotAcquired, res |-> "none"]

\* the DXGI engine is not followed statement by statement
EngineUntracked ==
    /\ duplication = None /\ dxLoop = "untracked"
    /\ dxReturned = NoEngineCall /\ dxCalls = 0
    /\ dxRested = TRUE /\ dxReports = 0 /\ dxLost = FALSE

\* no TextureProcessor and no platforms Capture is followed
PlatformsUntracked ==
    /\ gpu_processing_enabled = TRUE
    /\ extraction = NoExtraction
    /\ capture = NoCapture

\* the service after new(), a subscribe() by each consumer (as in
\* test_multiple_subscribers) and start_window_capture("A")
InitHubWindow ==
    /\ QuietRest /\ PlatformsUntracked /\ EngineUntracked
    /\ subs = [s \in Subscribers |-> Some(0)]
    /\ subLog = [s \in Subscribers |-> Subscribed]
    /\ capture_control = Some(1) /\ current_window = Some("A")
    /\ threads = <<[win |-> "A", running |-> TRUE, others |-> {}, held |-> None]>>
    /\ dxgi_capture = None /\ dxgiLock = None /\ dxgiTasks = <<>>

\* the service after new(), a subscribe() by one consumer and
\* start_dxgi_capture(), whose task has entered start_capture_loop
InitHubDxgi ==
    /\ QuietRest /\ PlatformsUntracked /\ EngineUntracked
    /\ subs = [s \in Subscribers |-> IF s = "s1" THEN Some(0) ELSE None]
    /\ subLog = [s \in Subscribers |-> IF s = "s1" THEN Subscribed ELSE NoReceive]
    /\ capture_control = None /\ current_window = None
    /\ threads = <<>>
    /\ dxgi_capture = Some("dxgi") /\ dxgiLock = Some(1) /\ dxgiTasks = <<"loop">>

InitHub == InitHubWindow \/ InitHubDxgi

(***************************************************************************)
(* ImageProcessingService: start_processing, stop_processing and the task  *)
(* start_processing spawns.                                                *)
(***************************************************************************)
\* everything but ImageProcessingService
ImageRest == <<hubVars, metricVars, gfxVars, mmVars, subLog, dxVars,
               total_capture_time_ms, platVars, timerService>>

CallStartProcessing(p) ==
    /\ Begin(p, "start_processing", None, "ip_check", <<>>, MaxImageCalls)
    /\ UNCHANGED <<imageService, ImageRest>>

CallStopProcessing(p) ==
    /\ Begin(p, "stop_processing", None, "ips_flag", <<>>, MaxImageCalls)
    /\ UNCHANGED <<imageService, ImageRest>>

\* start_processing: return Ok at once when the running flag is set
IpCheck(p) ==
    /\ pc[p] = "ip_check"
    /\ IF imageService.is_processing THEN Return(p, "ok") ELSE Step(p, "ip_subscribe")
    /\ UNCHANGED <<imageService, ImageRest>>

\* start_processing: subscribe() gives the receiver of the task to be
\* spawned, and a resubscribe() of it is stored (the one stored before is
\* dropped)
IpSubscribe(p) ==
    /\ pc[p] = "ip_subscribe"
    /\ imageService' = [imageService EXCEPT
            !.frame_receiver = Some(HubTail),
            !.tasks = Append(@, [pc |-> "new", next |-> HubTail, frame |-> None])]
    /\ pc' = [pc EXCEPT ![p] = "ip_spawn"]
    /\ local' = [local EXCEPT ![p] = Some(Len(imageService.tasks) + 1)]
    /\ UNCHANGED <<stack, op, arg, ret, calls, lastDone>>
    /\ UNCHANGED ImageRest

\* start_processing: set the running flag and spawn the task
IpSpawn(p) ==
    /\ pc[p] = "ip_spawn"
    /\ imageService' = [imageService EXCEPT
            !.is_processing = TRUE,
            !.tasks[Get(local[p])].pc = "check"]
    /\ Return(p, "ok")
    /\ UNCHANGED ImageRest

\* stop_processing: clear the running flag
IpsFlag(p) ==
    /\ pc[p] = "ips_flag"
    /\ imageService' = [imageService EXCEPT !.is_processing = FALSE]
    /\ Step(p, "ips_receiver")
    /\ UNCHANGED ImageRest

\* stop_processing: drop the stored receiver
IpsReceiver(p) ==
    /\ pc[p] = "ips_receiver"
    /\ imageService' = [imageService EXCEPT !.frame_receiver = None]
    /\ Return(p, "ok")
    /\ UNCHANGED ImageRest

\* the task tests the running flag; it ends, and drops its receiver, when
\* the flag is clear
ImageTaskCheck(i) ==
    /\ i \in DOMAIN imageService.tasks
    /\ imageService.tasks[i].pc = "check"
    /\ imageService' = [imageService EXCEPT !.tasks[i] =
            IF imageService.is_processing THEN [@ EXCEPT !.pc = "recv"]
            ELSE [pc |-> "done", next |-> 0, frame |-> None]]
    /\ UNCHANGED <<procVars, ImageRest>>

\* the task waits in recv(): a frame, or a lag notice whose skip count goes
\* to frames_dropped
ImageTaskRecv(i) ==
    /\ i \in DOMAIN imageService.tasks
    /\ imageService.tasks[i].pc = "recv"
    /\ LET r == HubRecv(imageService.tasks[i].next) IN
        /\ r.kind # "empty"
        /\ imageService' = [imageService EXCEPT
                !.tasks[i] = [pc |-> IF r.kind = "ok" THEN "process" ELSE "check",
                              next |-> r.next, frame |-> r.frame],
                !.metrics.frames_dropped = @ + r.skipped]
    /\ UNCHANGED <<procVars, ImageRest>>

\* process_frame_for_features: counts a detection on a frame larger than
\* 1000 x 600 and returns Ok; the frame is counted as processed
ImageTaskProcess(i) ==
    /\ i \in DOMAIN imageService.tasks
    /\ imageService.tasks[i].pc = "process"
    /\ LET frame == Get(imageService.tasks[i].frame) IN
        imageService' = [imageService EXCEPT
            !.tasks[i] = [pc |-> "check", next |-> @.next, frame |-> None],
            !.metrics.frames_processed = @ + 1,
            !.metrics.feature_detections =
                IF frame.width > 1000 /\ frame.height > 600 THEN @ + 1 ELSE @]
    /\ UNCHANGED <<procVars, ImageRest>>

\* the tasks of ImageProcessingService that were spawned and have not ended
RunningImageTasks ==
    {i \in DOMAIN imageService.tasks : imageService.tasks[i].pc \notin {"new", "done"}}

(***************************************************************************)
(* The timer-driven MinimapService (services/minimap.rs): start() and      *)
(* stop() over a one-shot stop channel, and the capture loops start()      *)
(* spawns. A loop record is made with its channel: rx is "open" while the  *)
(* sender is alive, "sent" after send(()), "closed" once the sender was    *)
(* dropped unsent.                                                         *)
(***************************************************************************)
TimerRest == <<hubVars, metricVars, gfxVars, mmVars, subLog, dxVars,
               total_capture_time_ms, platVars, imageService>>

CallStart(p) ==
    /\ Begin(p, "start", None, "ts_channel", <<>>, MaxTimerCalls)
    /\ UNCHANGED <<timerService, TimerRest>>

CallStop(p) ==
    /\ Begin(p, "stop", None, "tp_take", <<>>, MaxTimerCalls)
    /\ UNCHANGED <<timerService, TimerRest>>

\* start: oneshot::channel(); the caller holds both ends
TsChannel(p) ==
    /\ pc[p] = "ts_channel"
    /\ timerService' = [timerService EXCEPT
            !.loops = Append(@, [pc |-> "new", rx |-> "open", timer |-> FALSE])]
    /\ pc' = [pc EXCEPT ![p] = "ts_store"]
    /\ local' = [local EXCEPT ![p] = Some(Len(timerService.loops) + 1)]
    /\ UNCHANGED <<stack, op, arg, ret, calls, lastDone>>
    /\ UNCHANGED TimerRest

\* a start that leaves the sender it replaces alive
TsStoreKeepsSender(p) ==
    /\ pc[p] = "ts_store"
    /\ timerService' = [timerService EXCEPT !.stop_tx = local[p]]
    /\ pc' = [pc EXCEPT ![p] = "ts_spawn"]
    /\ UNCHANGED <<stack, op, arg, ret, local, calls, lastDone>>
    /\ UNCHANGED TimerRest

\* start: the sender is stored under the lock; the sender stored before is
\* dropped, which closes the channel of the loop it belonged to
TsStore(p) ==
    /\ pc[p] = "ts_store"
    /\ timerService' = [timerService EXCEPT
            !.stop_tx = local[p],
            !.loops = [i \in DOMAIN @ |->
                         IF timerService.stop_tx = Some(i)
                         THEN [@[i] EXCEPT !.rx = "closed"] ELSE @[i]]]
    /\ pc' = [pc EXCEPT ![p] = "ts_spawn"]
    /\ UNCHANGED <<stack, op, arg, ret, local, calls, lastDone>>
    /\ UNCHANGED TimerRest

\* start: spawn the loop with the receiver and return Ok; the loop enters
\* select!, where the 1500 ms sleep can only win against a channel that is
\* still open when the sleep is made
TsSpawn(p) ==
    /\ pc[p] = "ts_spawn"
    /\ timerService' = [timerService EXCEPT
            !.loops[Get(local[p])] =
                [pc |-> "select", rx |-> @.rx, timer |-> (@.rx = "open")]]
    /\ Return(p, "ok")
    /\ UNCHANGED TimerRest

\* stop: under the lock, take the stored sender and send on it, if there is
\* one; return Ok either way
TpTake(p) ==
    /\ pc[p] = "tp_take"
    /\ timerService' =
          IF timerService.stop_tx = None THEN timerService
          ELSE [timerService EXCEPT
                  !.stop_tx = None,
                  !.loops[Get(timerService.stop_tx)].rx = "sent"]
    /\ Return(p, "ok")
    /\ UNCHANGED TimerRest

\* the loop in select!: the receiver has completed (a message, or the sender
\* dropped) and the loop breaks
TimerLoopStops(i) ==
    /\ i \in DOMAIN timerService.loops
    /\ timerService.loops[i].pc = "select"
    /\ timerService.loops[i].rx # "open"
    /\ timerService' = [timerService EXCEPT !.loops[i].pc = "done"]
    /\ UNCHANGED <<procVars, TimerRest>>

\* the loop in select!: the sleep elapses first
TimerLoopTick(i) ==
    /\ i \in DOMAIN timerService.loops
    /\ timerService.loops[i].pc = "select"
    /\ timerService.loops[i].timer
    /\ timerService' = [timerService EXCEPT !.loops[i].pc = "capture"]
    /\ UNCHANGED <<procVars, TimerRest>>

\* the loop has called capture_game_window, whose result it discards, and
\* is back in select! with a new sleep
TimerLoopCapture(i) ==
    /\ i \in DOMAIN timerService.loops
    /\ timerService.loops[i].pc = "capture"
    /\ timerService' = [timerService EXCEPT
            !.loops[i] = [pc |-> "select", rx |-> @.rx, timer |-> (@.rx = "open")]]
    /\ UNCHANGED <<procVars, TimerRest>>

\* the capture loops that were spawned, have not ended, and were not told to
\* end: they keep running
RunningTimerLoops ==
    {i \in DOMAIN timerService.loops :
        /\ timerService.loops[i].pc \notin {"new", "done"}
        /\ timerService.loops[i].rx = "open"}

\* the capture loops that run or are being started
StartedTimerLoops ==
    {i \in DOMAIN timerService.loops :
        /\ timerService.loops[i].pc # "done"
        /\ timerService.loops[i].rx = "open"}

(***************************************************************************)
(* The hub alone: a backend publishes, the consumers receive.              *)
(***************************************************************************)
HubOnFrameArrived == \E c \in DOMAIN threads : OnFrameArrived(c, MaxHubFrames)
HubDxgiLoopFrame == \E i \in DOMAIN dxgiTasks : DxgiLoopFrame(i, MaxHubFrames)
HubDxgiLoopWake == \E i \in DOMAIN dxgiTasks : DxgiLoopWake(i)
HubSubRecv == \E s \in Subscribers : SubRecv(s)

NextHub ==
    \/ HubOnFrameArrived
    \/ HubDxgiLoopFrame
    \/ HubDxgiLoopWake
    \/ HubSubRecv

SpecHub == InitHub /\ [][NextHub]_vars

(***************************************************************************)
(* API calls                                                               *)
(***************************************************************************)
\* GraphicsCaptureService called directly (as image_processing.rs does)
CallStartWindowCapture(p, t) ==
    /\ Begin(p, "start_window_capture", Some(t), "swc_find", <<>>, MaxGfxCalls)
    /\ UNCHANGED <<sideVars, dxVars, hubVars, metricVars, gfxVars, mmVars, subLog>>

\* start_dxgi_capture, which enable_dxgi_mode of MinimapService hands on to
CallStartDxgiCapture(p) ==
    /\ Begin(p, "start_dxgi_capture", None, "sdx_new", <<>>, MaxGfxCalls)
    /\ UNCHANGED <<sideVars, dxVars, hubVars, metricVars, gfxVars, mmVars, subLog>>

CallGraphicsStop(p) ==
    /\ Begin(p, "graphics_stop_capture", None, "gs_control", <<>>, MaxGfxCalls)
    /\ UNCHANGED <<sideVars, dxVars, hubVars, metricVars, gfxVars, mmVars, subLog>>

\* MinimapService called by the UI and through the Service trait.
\* set_window: stop_capture, then start_window_capture, then the rest
CallSetWindow(p, t, limit) ==
    /\ Begin(p, "set_window", Some(t), "st_guard", <<"swc_find", "sw_subscribe">>, limit)
    /\ UNCHANGED <<sideVars, dxVars, hubVars, metricVars, gfxVars, mmVars, subLog>>

CallStartCapture(p, limit) ==
    /\ Begin(p, "start_capture", None, "sc_reset", <<>>, limit)
    /\ UNCHANGED <<sideVars, dxVars, hubVars, metricVars, gfxVars, mmVars, subLog>>

CallStopCapture(p, limit) ==
    /\ Begin(p, "stop_capture", None, "st_guard", <<>>, limit)
    /\ UNCHANGED <<sideVars, dxVars, hubVars, metricVars, gfxVars, mmVars, subLog>>

\* enable_dxgi_mode hands on to start_dxgi_capture
CallEnableDxgiMode(p, limit) ==
    /\ Begin(p, "enable_dxgi_mode", None, "sdx_new", <<>>, limit)
    /\ UNCHANGED <<sideVars, dxVars, hubVars, metricVars, gfxVars, mmVars, subLog>>

\* a step of start_window_capture or stop_capture by caller p
WindowCaptureStep(p) ==
    \/ SwcFind(p) \/ SwcStart(p) \/ SwcStartFails(p) \/ SwcStore(p)
    \/ GsControl(p) \/ GsDxgi(p)

\* a step of start_dxgi_capture by caller p
DxgiStartStep(p) == SdxNew(p) \/ SdxStore(p)

\* a step of GraphicsCaptureService code by caller p
GraphicsStep(p) == WindowCaptureStep(p) \/ DxgiStartStep(p)

\* a step of MinimapService code by caller p
MinimapStep(p) ==
    \/ StGuard(p) \/ StProcessing(p) \/ StTitle(p)
    \/ StReceiver(p) \/ StSend(p) \/ StReset(p)
    \/ SwSubscribe(p) \/ SwTitle(p)
    \/ ScReset(p) \/ ScCheck(p) \/ ScResubscribe(p) \/ ScSpawn(p)

\* a step of the task spawned by start_dxgi_capture that the runtime takes
\* by itself
DxgiTaskRuns(i) ==
    \/ DxgiTaskLock(i)
    \/ DxgiLoopFrame(i, MaxFrames) \/ DxgiLoopSkip(i) \/ DxgiLoopWake(i)

\* a step of a window capture thread
WindowBackendStep == \E c \in DOMAIN threads : OnFrameArrived(c, MaxFrames)

\* a step of a capture backend
BackendStep ==
    \/ WindowBackendStep
    \/ \E i \in DOMAIN dxgiTasks : DxgiTaskLock(i)
    \/ \E i \in DOMAIN dxgiTasks : DxgiLoopFrame(i, MaxFrames)
    \/ \E i \in DOMAIN dxgiTasks : DxgiLoopSkip(i)
    \/ \E i \in DOMAIN dxgiTasks : DxgiLoopWake(i)
    \/ \E i \in DOMAIN dxgiTasks : DxgiLoopFails(i)

\* a step of a processing task of MinimapService
LoopStep ==
    \/ \E i \in DOMAIN loops : LoopCheck(i)
    \/ \E i \in DOMAIN loops : LoopRecv(i)
    \/ \E i \in DOMAIN loops : LoopProcess(i)
    \/ \E i \in DOMAIN loops : LoopProcessFails(i)

(***************************************************************************)
(* GraphicsCaptureService used directly by concurrent callers.             *)
(***************************************************************************)
\* the consumer that subscribes while the service is in use
Consumer == "s1"

InitGfx ==
    /\ QuietRest /\ PlatformsUntracked /\ EngineUntracked
    /\ subs = [s \in Subscribers |-> None]
    /\ subLog = [s \in Subscribers |-> NoReceive]
    /\ capture_control = None /\ current_window = None
    /\ threads = <<>>
    /\ dxgi_capture = None /\ dxgiLock = None /\ dxgiTasks = <<>>

\* a step of the task spawned by start_dxgi_capture, as DxgiTaskRuns
GfxDxgiTaskRuns(i) ==
    \/ DxgiTaskLock(i)
    \/ DxgiLoopFrame(i, MaxGfxFrames) \/ DxgiLoopSkip(i) \/ DxgiLoopWake(i)

\* a step of a capture backend, as BackendStep
GfxBackendStep ==
    \/ \E c \in DOMAIN threads : OnFrameArrived(c, MaxGfxFrames)
    \/ \E i \in DOMAIN dxgiTasks : DxgiTaskLock(i)
    \/ \E i \in DOMAIN dxgiTasks : DxgiLoopFrame(i, MaxGfxFrames)
    \/ \E i \in DOMAIN dxgiTasks : DxgiLoopSkip(i)
    \/ \E i \in DOMAIN dxgiTasks : DxgiLoopWake(i)
    \/ \E i \in DOMAIN dxgiTasks : DxgiLoopFails(i)

NextGfx ==
    \/ \E p \in Procs, t \in Titles : CallStartWindowCapture(p, t)
    \/ \E p \in Procs : CallStartDxgiCapture(p)
    \/ \E p \in Procs : CallGraphicsStop(p)
    \/ \E p \in Procs : GraphicsStep(p)
    \/ GfxBackendStep
    \/ Subscribe(Consumer)
    \/ SubRecv(Consumer)

SpecGfx == InitGfx /\ [][NextGfx]_vars

\* the runtime runs every task that can run: callers go on, the DXGI task
\* goes on; nothing makes a capture fail or a user call
FairSpecGfx ==
    /\ SpecGfx
    /\ \A p \in Procs : WF_vars(GraphicsStep(p))
    /\ WF_vars(\E i \in DOMAIN dxgiTasks : GfxDxgiTaskRuns(i))

(***************************************************************************)
(* GraphicsCaptureService used directly, one call at a time.               *)
(***************************************************************************)
NextGfxSerial ==
    \/ \E p \in Procs, t \in Titles :
            /\ \A q \in Procs : pc[q] = Idle
            /\ Begin(p, "start_window_capture", Some(t), "swc_find", <<>>, MaxGfxSerialCalls)
            /\ UNCHANGED <<sideVars, dxVars, hubVars, metricVars, gfxVars, mmVars, subLog>>
    \/ \E p \in Procs :
            /\ \A q \in Procs : pc[q] = Idle
            /\ Begin(p, "start_dxgi_capture", None, "sdx_new", <<>>, MaxGfxSerialCalls)
            /\ UNCHANGED <<sideVars, dxVars, hubVars, metricVars, gfxVars, mmVars, subLog>>
    \/ \E p \in Procs :
            /\ \A q \in Procs : pc[q] = Idle
            /\ Begin(p, "graphics_stop_capture", None, "gs_control", <<>>, MaxGfxSerialCalls)
            /\ UNCHANGED <<sideVars, dxVars, hubVars, metricVars, gfxVars, mmVars, subLog>>
    \/ \E p \in Procs : GraphicsStep(p)
    \/ GfxBackendStep
    \/ Subscribe(Consumer)
    \/ SubRecv(Consumer)

SpecGfxSerial == InitGfx /\ [][NextGfxSerial]_vars

(***************************************************************************)
(* GraphicsCaptureService with the time each capture takes: the callbacks  *)
(* add the milliseconds elapsed since their start to                       *)
(* total_capture_time_ms.                                                  *)
(***************************************************************************)
\* elapsed.as_millis() of one capture: under a millisecond, or more
CaptureTimes == {0, 1}

\* an on_frame_arrived that stores the time of its frame
OnFrameArrivedStoresTime(c, limit, elapsed) ==
    /\ c \in RunningThreads
    /\ Publish([kind |-> "window", thread |-> c], limit)
    /\ total_capture_time_ms + elapsed <= MaxCaptureTime
    /\ total_capture_time_ms' = elapsed
    /\ UNCHANGED <<svcVars, platVars, dxVars, subs, gfxVars, mmVars, procVars, subLog>>

\* on_frame_arrived of capture thread c, taking elapsed milliseconds
OnFrameArrivedIn(c, limit, elapsed) ==
    /\ c \in RunningThreads
    /\ Publish([kind |-> "window", thread |-> c], limit)
    /\ total_capture_time_ms + elapsed <= MaxCaptureTime
    /\ total_capture_time_ms' = total_capture_time_ms + elapsed
    /\ UNCHANGED <<svcVars, platVars, dxVars, subs, gfxVars, mmVars, procVars, subLog>>

\* start_capture_loop: a frame is captured, extracted and published in
\* elapsed milliseconds
DxgiLoopFrameIn(i, limit, elapsed) ==
    /\ i \in DOMAIN dxgiTasks
    /\ dxgiTasks[i] = "loop"
    /\ Publish([kind |-> "dxgi", thread |-> 0], limit)
    /\ total_capture_time_ms + elapsed <= MaxCaptureTime
    /\ total_capture_time_ms' = total_capture_time_ms + elapsed
    /\ dxgiTasks' = [dxgiTasks EXCEPT ![i] = "sleep"]
    /\ UNCHANGED <<svcVars, platVars, dxVars, subs, mmVars, procVars, subLog>>
    /\ UNCHANGED <<capture_control, current_window, dxgi_capture, dxgiLock, threads>>

\* start_capture_loop: a frame is captured but extract_frame_data fails;
\* the time is added all the same
DxgiLoopSkipIn(i, elapsed) ==
    /\ i \in DOMAIN dxgiTasks
    /\ dxgiTasks[i] = "loop"
    /\ total_capture_time_ms + elapsed <= MaxCaptureTime
    /\ total_capture_time_ms' = total_capture_time_ms + elapsed
    /\ dxgiTasks' = [dxgiTasks EXCEPT ![i] = "sleep"]
    /\ UNCHANGED <<svcVars, platVars, dxVars, hubVars, metricVars, mmVars, procVars, subLog>>
    /\ UNCHANGED <<capture_control, current_window, dxgi_capture, dxgiLock, threads>>

NextTimed ==
    \/ \E p \in Procs, t \in Titles :
            /\ \A q \in Procs : pc[q] = Idle
            /\ Begin(p, "start_window_capture", Some(t), "swc_find", <<>>, MaxTimedCalls)
            /\ UNCHANGED <<sideVars, dxVars, hubVars, metricVars, gfxVars, mmVars, subLog>>
    \/ \E p \in Procs :
            /\ \A q \in Procs : pc[q] = Idle
            /\ Begin(p, "start_dxgi_capture", None, "sdx_new", <<>>, MaxTimedCalls)
            /\ UNCHANGED <<sideVars, dxVars, hubVars, metricVars, gfxVars, mmVars, subLog>>
    \/ \E p \in Procs :
            /\ \A q \in Procs : pc[q] = Idle
            /\ Begin(p, "graphics_stop_capture", None, "gs_control", <<>>, MaxTimedCalls)
            /\ UNCHANGED <<sideVars, dxVars, hubVars, metricVars, gfxVars, mmVars, subLog>>
    \/ \E p \in Procs : GraphicsStep(p)
    \/ \E c \in DOMAIN threads, e \in CaptureTimes : OnFrameArrivedIn(c, MaxTimedFrames, e)
    \/ \E i \in DOMAIN dxgiTasks : DxgiTaskLock(i)
    \/ \E i \in DOMAIN dxgiTasks, e \in CaptureTimes : DxgiLoopFrameIn(i, MaxTimedFrames, e)
    \/ \E i \in DOMAIN dxgiTasks, e \in CaptureTimes : DxgiLoopSkipIn(i, e)
    \/ \E i \in DOMAIN dxgiTasks : DxgiLoopWake(i)
    \/ \E i \in DOMAIN dxgiTasks : DxgiLoopFails(i)
    \/ Subscribe(Consumer)

SpecTimed == InitGfx /\ [][NextTimed]_vars

(***************************************************************************)
(* The DXGI engine: driven by start_capture_loop in the task spawned by    *)
(* start_dxgi_capture, or used directly by its owner.                      *)
(***************************************************************************)
\* start_dxgi_capture has returned Ok (DxgiCapture::new initialized the
\* engine) and its task has locked dxgi_capture and entered the loop
InitDxgiLoop ==
    /\ QuietRest /\ PlatformsUntracked
    /\ subs = [s \in Subscribers |-> None]
    /\ subLog = [s \in Subscribers |-> NoReceive]
    /\ capture_control = None /\ current_window = None
    /\ threads = <<>>
    /\ dxgi_capture = Some("dxgi") /\ dxgiLock = Some(1) /\ dxgiTasks = <<"loop">>
    /\ duplication = Session /\ dxLoop = "capture"
    /\ dxReturned = [call |-> "initialize_primary_output", os |-> NotAcquired,
                     res |-> "Ok"]
    /\ dxCalls = 0 /\ dxRested = TRUE /\ dxReports = 0 /\ dxLost = FALSE

\* DxgiDesktopDuplication::new has returned an engine to its owner
InitDxgiClient ==
    /\ QuietRest /\ PlatformsUntracked
    /\ subs = [s \in Subscribers |-> None]
    /\ subLog = [s \in Subscribers |-> NoReceive]
    /\ capture_control = None /\ current_window = None
    /\ threads = <<>>
    /\ dxgi_capture = None /\ dxgiLock = None /\ dxgiTasks = <<>>
    /\ duplication = None /\ dxLoop = "client"
    /\ dxReturned = NoEngineCall
    /\ dxCalls = 0 /\ dxRested = TRUE /\ dxReports = 0 /\ dxLost = FALSE

InitDxgi == InitDxgiLoop \/ InitDxgiClient

NextDxgi ==
    \/ \E o \in AcquireOutcomes : ClientCaptureFrame(o)
    \/ \E ok \in BOOLEAN : ClientInitialize(ok)
    \/ ClientReset
    \/ \E o \in AcquireOutcomes : DxLoopCapture(o)
    \/ DxLoopPublish
    \/ DxLoopExtractFails
    \/ DxLoopSleep
    \/ \E ok \in BOOLEAN : DxLoopRecover(ok)
    \/ DxLoopReport
    \/ Subscribe(Consumer)
    \/ SubRecv(Consumer)

SpecDxgi == InitDxgi /\ [][NextDxgi]_vars

(***************************************************************************)
(* A TextureProcessor and its owner: extract_frame_data calls, with        *)
(* set_gpu_processing between them.                                        *)
(***************************************************************************)
\* GraphicsCaptureService and MinimapService after new(), nothing started
ServicesQuiet ==
    /\ QuietRest /\ EngineUntracked
    /\ subs = [s \in Subscribers |-> None]
    /\ subLog = [s \in Subscribers |-> NoReceive]
    /\ capture_control = None /\ current_window = None
    /\ threads = <<>>
    /\ dxgi_capture = None /\ dxgiLock = None /\ dxgiTasks = <<>>

\* TextureProcessor::new: GPU processing enabled
InitTexture ==
    /\ ServicesQuiet
    /\ gpu_processing_enabled = TRUE
    /\ extraction = NoExtraction
    /\ capture = NoCapture

NextTexture ==
    \/ \E enabled \in BOOLEAN : SetGpuProcessing(enabled)
    \/ \E direct \in BOOLEAN : ExtractFrameData(direct)
    \/ \E created, mapped \in BOOLEAN : ExtractGpu(created, mapped)
    \/ \E created, mapped \in BOOLEAN : ExtractCpu(created, mapped)

SpecTexture == InitTexture /\ [][NextTexture]_vars

(***************************************************************************)
(* A platforms Capture and its owner: set_window and windows_capture_kind  *)
(* calls.                                                                  *)
(***************************************************************************)
InitCapture ==
    /\ ServicesQuiet
    /\ gpu_processing_enabled = TRUE
    /\ extraction = NoExtraction
    /\ \E w \in Windows : capture = CaptureNew(w)

NextCapture ==
    \/ \E w \in Windows : CaptureSetWindow(w)
    \/ \E kind \in CaptureKinds : CaptureWindowsCaptureKind(kind)
    \/ \E ok \in BOOLEAN : CaptureConstruct(ok)
    \/ CaptureAssign

SpecCapture == InitCapture /\ [][NextCapture]_vars

(***************************************************************************)
(* The processing loop of MinimapService and the frames it is given.       *)
(***************************************************************************)
\* sizes of the frames explored: at, just above and well above the display
\* target, and beyond what a JPEG can hold
FrameWidths == {640, 800, 801, 1920, 70000}
FrameHeights == {10, 450, 451, 1080}
\* length of the data of a Jpeg frame that is not empty
EncodedLen == 4096

\* the CapturedFrame values explored: every format and size, with data that
\* is empty or holds every pixel of the frame
CapturedFrames ==
    {[format |-> f, width |-> w, height |-> h, data |-> Bytes(n, "pixels")] :
        f \in FrameFormats \ {"Jpeg"}, w \in FrameWidths, h \in FrameHeights,
        n \in {0}} \cup
    {[format |-> f, width |-> w, height |-> h,
      data |-> Bytes(w * h * BytesPerPixel(f), "pixels")] :
        f \in FrameFormats \ {"Jpeg"}, w \in FrameWidths, h \in FrameHeights} \cup
    {[format |-> "Jpeg", width |-> w, height |-> h, data |-> Bytes(n, "stream")] :
        w \in FrameWidths, h \in FrameHeights, n \in {0, EncodedLen}}

\* MinimapService after set_window("A") returned Ok: the capture thread of
\* window A runs, the receiver is stored and the processing task is spawned
InitProcessing ==
    /\ PlatformsUntracked /\ EngineUntracked
    /\ hubLog = <<>> /\ sent = 0 /\ lastSrc = NoSource
    /\ frames_captured = 0 /\ frames_dropped = 0 /\ active_subscribers = 0
    /\ total_capture_time_ms = 0
    /\ imageService = NoImageService /\ timerService = NoTimerService
    /\ subs = [s \in Subscribers |-> None]
    /\ subLog = [s \in Subscribers |-> NoReceive]
    /\ capture_control = Some(1) /\ current_window = Some("A")
    /\ threads = <<[win |-> "A", running |-> TRUE, others |-> {}, held |-> None]>>
    /\ dxgi_capture = None /\ dxgiLock = None /\ dxgiTasks = <<>>
    /\ current_window_title = Some("A") /\ frame_receiver = Some(0)
    /\ frame_sender = None
    /\ is_processing = TRUE /\ is_stopping = FALSE
    /\ metrics = [frames_processed |-> 0, frames_dropped |-> 0]
    /\ loops = <<[pc |-> "check", next |-> 0, frame |-> None]>>
    /\ pc = [p \in Procs |-> Idle] /\ stack = [p \in Procs |-> <<>>]
    /\ op = [p \in Procs |-> Idle] /\ arg = [p \in Procs |-> None]
    /\ ret = [p \in Procs |-> "none"] /\ local = [p \in Procs |-> None]
    /\ calls = 0
    /\ lastDone = [op |-> "set_window", arg |-> Some("A"), res |-> "ok"]

\* a backend sends a CapturedFrame to the hub
FrameArrives(frame) ==
    /\ PublishFrame([kind |-> "window", thread |-> 1], MaxEncodeFrames, frame)
    /\ UNCHANGED <<sideVars, dxVars, subs, gfxVars, mmVars, procVars, subLog>>

NextEncode ==
    \/ \E frame \in CapturedFrames : FrameArrives(frame)
    \/ \E i \in DOMAIN loops : LoopCheck(i)
    \/ \E i \in DOMAIN loops : LoopRecv(i)
    \/ \E i \in DOMAIN loops : LoopProcessFrame(i)

SpecEncode == InitProcessing /\ [][NextEncode]_vars

\* The processing task behind a busy channel: the capture thread of window A
\* sends more frames than the channel holds while the task is slow.
\* The CapturedFrame on_frame_arrived builds: Rgba8, the size of the window
\* frame, every pixel copied
WindowFrame ==
    [format |-> "Rgba8", width |-> 640, height |-> 360,
     data |-> Bytes(640 * 360 * 4, "pixels")]

\* on_frame_arrived of capture thread c sends its frame to the hub
WindowFrameArrives(c, limit) ==
    /\ c \in RunningThreads
    /\ PublishFrame([kind |-> "window", thread |-> c], limit, WindowFrame)
    /\ UNCHANGED <<sideVars, dxVars, subs, gfxVars, mmVars, procVars, subLog>>

NextLag ==
    \/ \E c \in DOMAIN threads : WindowFrameArrives(c, MaxLagFrames)
    \/ \E i \in DOMAIN loops : LoopCheck(i)
    \/ \E i \in DOMAIN loops : LoopRecv(i)
    \/ \E i \in DOMAIN loops : LoopProcessFrame(i)

SpecLag == InitProcessing /\ [][NextLag]_vars

\* The processing task while stop_capture is called: the capture thread of
\* window A sends frames, the task processes them, and callers stop the
\* service; nothing sets the running flag again
NextStop ==
    \/ \E c \in DOMAIN threads : WindowFrameArrives(c, MaxStopFrames)
    \/ \E i \in DOMAIN loops : LoopCheck(i)
    \/ \E i \in DOMAIN loops : LoopRecv(i)
    \/ \E i \in DOMAIN loops : LoopProcessFrame(i)
    \/ \E p \in Procs : CallStopCapture(p, MaxStopCalls)
    \/ \E p \in Procs : StGuard(p)
    \/ \E p \in Procs : StProcessing(p)
    \/ \E p \in Procs : StTitle(p)
    \/ \E p \in Procs : StReceiver(p)
    \/ \E p \in Procs : StSend(p)
    \/ \E p \in Procs : GsControl(p)
    \/ \E p \in Procs : GsDxgi(p)
    \/ \E p \in Procs : StReset(p)

SpecStop == InitProcessing /\ [][NextStop]_vars

\* the runtime runs every task that can run: the processing task goes on
\* whenever it has a step to take, and so does a caller inside stop_capture
FairSpecStop ==
    /\ SpecStop
    /\ WF_vars(\E i \in DOMAIN loops : LoopCheck(i) \/ LoopRecv(i) \/ LoopProcessFrame(i))
    /\ \A p \in Procs :
        WF_vars(StGuard(p) \/ StProcessing(p) \/ StTitle(p) \/ StReceiver(p)
                    \/ StSend(p) \/ GsControl(p) \/ GsDxgi(p) \/ StReset(p))

(***************************************************************************)
(* ImageProcessingService over a graphics service that captures window A,  *)
(* concurrent callers.                                                     *)
(***************************************************************************)
\* the graphics service after new() and start_window_capture("A"), and a
\* new ImageProcessingService
InitImage ==
    /\ QuietRest /\ PlatformsUntracked /\ EngineUntracked
    /\ subs = [s \in Subscribers |-> None]
    /\ subLog = [s \in Subscribers |-> NoReceive]
    /\ capture_control = Some(1) /\ current_window = Some("A")
    /\ threads = <<[win |-> "A", running |-> TRUE, others |-> {}, held |-> None]>>
    /\ dxgi_capture = None /\ dxgiLock = None /\ dxgiTasks = <<>>

NextImage ==
    \/ \E p \in Procs : CallStartProcessing(p)
    \/ \E p \in Procs : CallStopProcessing(p)
    \/ \E p \in Procs : IpCheck(p)
    \/ \E p \in Procs : IpSubscribe(p)
    \/ \E p \in Procs : IpSpawn(p)
    \/ \E p \in Procs : IpsFlag(p)
    \/ \E p \in Procs : IpsReceiver(p)
    \/ \E c \in DOMAIN threads : WindowFrameArrives(c, MaxImageFrames)
    \/ \E i \in DOMAIN imageService.tasks : ImageTaskCheck(i)
    \/ \E i \in DOMAIN imageService.tasks : ImageTaskRecv(i)
    \/ \E i \in DOMAIN imageService.tasks : ImageTaskProcess(i)

SpecImage == InitImage /\ [][NextImage]_vars

(***************************************************************************)
(* The timer-driven MinimapService, concurrent callers of start and stop.  *)
(***************************************************************************)
\* MinimapService::new: no sender stored, no loop
InitTimer ==
    /\ QuietRest /\ PlatformsUntracked /\ EngineUntracked
    /\ subs = [s \in Subscribers |-> None]
    /\ subLog = [s \in Subscribers |-> NoReceive]
    /\ capture_control = None /\ current_window = None
    /\ threads = <<>>
    /\ dxgi_capture = None /\ dxgiLock = None /\ dxgiTasks = <<>>

NextTimer ==
    \/ \E p \in Procs : CallStart(p)
    \/ \E p \in Procs : CallStop(p)
    \/ \E p \in Procs : TsChannel(p)
    \/ \E p \in Procs : TsStore(p)
    \/ \E p \in Procs : TsSpawn(p)
    \/ \E p \in Procs : TpTake(p)
    \/ \E i \in DOMAIN timerService.loops : TimerLoopStops(i)
    \/ \E i \in DOMAIN timerService.loops : TimerLoopTick(i)
    \/ \E i \in DOMAIN timerService.loops : TimerLoopCapture(i)

SpecTimer == InitTimer /\ [][NextTimer]_vars

\* the runtime runs every task that can run: a loop whose receiver has
\* completed gets to see it, and a call of capture_game_window returns
FairSpecTimer ==
    /\ SpecTimer
    /\ \A i \in 1..MaxTimerCalls :
        WF_vars(TimerLoopStops(i)) /\ WF_vars(TimerLoopCapture(i))

(***************************************************************************)
(* MinimapService over the graphics service, concurrent callers.           *)
(***************************************************************************)
Init == InitGfx

Next ==
    \/ \E p \in Procs, t \in Titles : CallSetWindow(p, t, MaxCalls)
    \/ \E p \in Procs : CallStartCapture(p, MaxCalls)
    \/ \E p \in Procs : CallStopCapture(p, MaxCalls)
    \/ \E p \in Procs : CallEnableDxgiMode(p, MaxCalls)
    \/ \E p \in Procs : MinimapStep(p)
    \/ \E p \in Procs : GraphicsStep(p)
    \/ BackendStep
    \/ LoopStep

Spec == Init /\ [][Next]_vars

(***************************************************************************)
(* MinimapService over window capture when no call overlaps a set_window   *)
(* or a start_capture: these begin with every caller idle; stop_capture    *)
(* calls overlap each other freely; enable_dxgi_mode is not called.        *)
(***************************************************************************)
AllIdle == \A q \in Procs : pc[q] = Idle

OthersStopOnly(p) == \A q \in Procs \ {p} : op[q] \in {Idle, "stop_capture"}

NextSerial ==
    \/ \E p \in Procs, t \in Titles : AllIdle /\ CallSetWindow(p, t, MaxSerialCalls)
    \/ \E p \in Procs : AllIdle /\ CallStartCapture(p, MaxSerialCalls)
    \/ \E p \in Procs : OthersStopOnly(p) /\ CallStopCapture(p, MaxSerialCalls)
    \/ \E p \in Procs : MinimapStep(p)
    \/ \E p \in Procs : WindowCaptureStep(p)
    \/ WindowBackendStep
    \/ LoopStep

SpecSerial == Init /\ [][NextSerial]_vars

\* MinimapService called one call at a time, on a new service or after
\* set_window("A") returned Ok; no frame arrives meanwhile, so a processing
\* task only tests the running flag and waits in recv()
NextRestart ==
    \/ \E p \in Procs, t \in Titles : AllIdle /\ CallSetWindow(p, t, MaxRestartCalls)
    \/ \E p \in Procs : AllIdle /\ CallStartCapture(p, MaxRestartCalls)
    \/ \E p \in Procs : AllIdle /\ CallStopCapture(p, MaxRestartCalls)
    \/ \E p \in Procs : MinimapStep(p)
    \/ \E p \in Procs : WindowCaptureStep(p)
    \/ \E i \in DOMAIN loops : LoopCheck(i)

SpecRestart == (Init \/ InitProcessing) /\ [][NextRestart]_vars

(***************************************************************************)
(* Properties of the hub                                                   *)
(***************************************************************************)
\* a recv() of consumer s returns in this step
SubReceives(s) == subs[s] # None /\ subs'[s] # subs[s]

\* frames accepted by the channel that consumer s has not received yet
Behind(s) == HubTail - Get(subs[s])

\* C8: a receiver that is at most the hub capacity (100 frames) behind
\* receives the frame published right after the one it received last (the
\* first one published after subscribe() to begin with): every frame once,
\* in publication order, wherever the other receivers stand.
C8_EveryFrameOnceInOrder ==
    [][\A s \in Subscribers :
        (SubReceives(s) /\ Behind(s) <= HubCapacity
            /\ subLog[s].kind \in {"subscribed", "ok"})
        => /\ subLog'[s].kind = "ok"
           /\ subLog'[s].frame = Some(Get(subLog[s].frame) + 1)]_vars

\* s1 has received frames 0..40 while s2, subscribed with it, has received
\* none of the 100 frames published
C8_Witness ==
    /\ threads # <<>>
    /\ HubTail = 100
    /\ subLog["s1"].kind = "ok" /\ subLog["s1"].frame = Some(40)
    /\ subLog["s2"].kind = "subscribed" /\ subs["s2"] = Some(0)

\* C9 as stated: a receiver more than 100 frames behind gets a lag notice
\* whose skip count is (frames published while it stalled - 100).
C9_SkipCountFromCapacity ==
    [][\A s \in Subscribers :
        (SubReceives(s) /\ Behind(s) > HubCapacity)
        => /\ subLog'[s].kind = "lagged"
           /\ subLog'[s].skipped = Behind(s) - HubCapacity]_vars

\* C9 amended: the channel retains 128 frames (100 rounded up to a power of
\* two). A receiver more than 128 frames behind gets a lag notice whose skip
\* count is (frames behind - 128); one that is at most 128 behind gets a
\* frame and no notice; and the first frame received after a lag notice is
\* the oldest frame the channel retains at that moment.
C9_SkipCountFromRetained ==
    [][\A s \in Subscribers :
        SubReceives(s)
        => /\ Behind(s) > 128
                => /\ subLog'[s].kind = "lagged"
                   /\ subLog'[s].skipped = Behind(s) - 128
           /\ Behind(s) <= 128 => subLog'[s].kind = "ok"
           /\ (subLog[s].kind = "lagged" /\ subLog'[s].kind = "ok")
                => /\ HubTail >= 128
                   /\ subLog'[s].frame = Some(hubLog[HubTail - 128 + 1])]_vars

\* s1 stalled while 131 frames were published, was told of 3 skipped frames
\* and then received frame 3, the oldest retained
C9_Witness ==
    /\ HubTail = 131
    /\ subLog["s1"].kind = "ok" /\ subLog["s1"].frame = Some(3)
    /\ subs["s1"] = Some(4)

\* C10: whenever a capture backend has a frame to publish, the publish can
\* be taken at once, wherever the receivers stand: window capture callback
\* and DXGI loop alike.
C10_PublishNeverWaits ==
    /\ \A c \in RunningThreads :
            sent < MaxHubFrames => ENABLED OnFrameArrived(c, MaxHubFrames)
    /\ \A i \in DOMAIN dxgiTasks :
            (dxgiTasks[i] = "loop" /\ sent < MaxHubFrames)
            => ENABLED DxgiLoopFrame(i, MaxHubFrames)

\* the DXGI loop has published frame 130 although s1 has received nothing
\* of the 130 frames before it
C10_Witness ==
    /\ lastSrc.kind = "dxgi"
    /\ HubTail = 131
    /\ subs["s1"] = Some(0)

(***************************************************************************)
(* Properties of GraphicsCaptureService                                    *)
(***************************************************************************)
\* C5: a stop_capture() of the graphics service that has reached the lock
\* of dxgi_capture always gets past it (and then returns with both
\* capture_control and dxgi_capture emptied by it), whichever backend is
\* active, a running DXGI capture loop included.
C5_StopCompletes ==
    \A p \in Procs : (pc[p] = "gs_dxgi") ~> (pc[p] # "gs_dxgi")

\* C6: a window-capture control and a desktop-duplication capture are
\* never both present.
C6_OneBackend == ~(capture_control # None /\ dxgi_capture # None)

\* C7: no capture thread is started while the service holds the control of
\* an earlier capture whose thread is still running, and once
\* start_window_capture has returned Ok with no other call in progress the
\* only thread running (and publishing) is the one whose control is held.
C7_PriorCaptureReleased ==
    /\ \A i \in DOMAIN threads :
            threads[i].held # None => Get(threads[i].held) \notin threads[i].others
    /\ (lastDone.op = "start_window_capture" /\ lastDone.res = "ok"
            /\ \A p \in Procs : pc[p] = Idle)
        => RunningThreads = {Get(capture_control)}

(***************************************************************************)
(* Properties of MinimapService                                            *)
(***************************************************************************)
\* caller p is past the guard of a stop_capture and has not reset it yet
InTeardown(p) ==
    \/ pc[p] \in {"st_processing", "st_title", "st_receiver", "st_send", "st_reset"}
    \/ pc[p] \in {"gs_control", "gs_dxgi"} /\ stack[p] # <<>>
            /\ Head(stack[p]) = "st_reset"

\* caller p takes a setup step of set_window or start_capture: binds the
\* graphics service to the window, stores the subscription, sets the target
\* title, or sets the running flag and spawns the loop
SetupStep(p) ==
    /\ pc[p] \in {"swc_start", "swc_store", "sw_subscribe", "sw_title", "sc_spawn"}
    /\ pc'[p] # pc[p]

\* processing tasks that have been spawned and have not ended
RunningLoops == {i \in DOMAIN loops : loops[i].pc \in {"check", "recv", "process"}}

\* C1: of stop_capture calls that overlap, one at a time runs the teardown
\* sequence, and a call that reaches the is_stopping guard while another is
\* in its teardown returns Ok leaving the running flag, the target title,
\* the receiver, the output publisher and the graphics service as they are.
C1_OneTeardown ==
    /\ [](\A p, q \in Procs : (InTeardown(p) /\ InTeardown(q)) => p = q)
    /\ [][\A p \in Procs :
            (pc[p] = "st_guard" /\ pc'[p] # pc[p]
                /\ \E q \in Procs \ {p} : InTeardown(q))
            => /\ pc'[p] = Idle
               /\ lastDone' = [op |-> "stop_capture", arg |-> None, res |-> "skipped"]
               /\ mmVars' = mmVars
               /\ gfxVars' = gfxVars]_vars

\* a stop_capture has returned at the guard while the other caller is in
\* the middle of its teardown
C1_Witness ==
    /\ lastDone = [op |-> "stop_capture", arg |-> None, res |-> "skipped"]
    /\ \E q \in Procs : pc[q] = "st_send" /\ op[q] = "stop_capture"

\* C2: no setup step of a set_window or start_capture is taken while a
\* stop_capture of another caller is in its teardown.
C2_SetupWaitsForTeardown ==
    [][\A p \in Procs :
        SetupStep(p) => \A q \in Procs \ {p} : ~InTeardown(q)]_vars

\* C3: at most one processing task is alive.
C3_OneLoop == Cardinality(RunningLoops) <= 1

\* C4: once a set_window has returned Ok, with no call in progress, the
\* target title is the title of that call, the graphics service holds the
\* control of a capture of that window, no other capture thread runs, and
\* none was running when the thread of that capture was started.
C4_LastWindowOnly ==
    (lastDone.op = "set_window" /\ lastDone.res = "ok" /\ AllIdle)
    => /\ current_window_title = lastDone.arg
       /\ current_window = lastDone.arg
       /\ capture_control # None
       /\ threads[Get(capture_control)].win = Get(lastDone.arg)
       /\ RunningThreads = {Get(capture_control)}
       /\ threads[Get(capture_control)].others = {}

\* set_window("B") has returned Ok after a set_window("A") whose capture
\* thread had started: that thread is stopped, the thread of B runs
C4_Witness ==
    /\ lastDone = [op |-> "set_window", arg |-> Some("B"), res |-> "ok"]
    /\ AllIdle
    /\ Len(threads) = 2
    /\ threads[1].win = "A" /\ ~threads[1].running
    /\ threads[2].win = "B" /\ threads[2].running

(***************************************************************************)
(* Properties of the capture metrics                                       *)
(***************************************************************************)
\* a capture backend makes a publish attempt in this step
Publishes == sent' = sent + 1

\* C11: a publish made while the hub has no receiver leaves frames_dropped
\* unchanged.
C11_NoReceiverNoDrop ==
    [][(Publishes /\ ReceiverCount = 0) => frames_dropped' = frames_dropped]_vars

\* C12: every publish attempt adds one to exactly one of frames_captured
\* (the send succeeded) and frames_dropped (the send failed), so that the two
\* always add up to the number of publish attempts made.
C12_EveryAttemptCounted ==
    /\ [](frames_captured + frames_dropped = sent)
    /\ [][Publishes =>
            \/ /\ SendOk
               /\ frames_captured' = frames_captured + 1
               /\ frames_dropped' = frames_dropped
            \/ /\ ~SendOk
               /\ frames_captured' = frames_captured
               /\ frames_dropped' = frames_dropped + 1]_vars

\* of two publish attempts one found no receiver and one was received
C12_Witness ==
    /\ sent = 2
    /\ frames_dropped = 1 /\ frames_captured = 1
    /\ subLog[Consumer].kind = "ok"

\* C13: the running flag and the stopping flag are never both true.
C13_OneLifecycleFlag == ~(is_processing /\ is_stopping)

\* caller p takes a step from the place at
Leaves(p, at) == pc[p] = at /\ pc'[p] # at

\* C14: a stop_capture that runs the teardown sets the stopping flag, then
\* clears the running flag (the settle delay follows), then clears the
\* target title, then the stored receiver, then publishes the empty value,
\* then stops the graphics service (control, then DXGI capture), then clears
\* the stopping flag; when it returns both flags are false and the title
\* and the stored receiver are empty.
C14_TeardownOrder ==
    [][\A p \in Procs :
        /\ (Leaves(p, "st_guard") /\ ~is_stopping)
            => is_stopping' /\ pc'[p] = "st_processing"
        /\ Leaves(p, "st_processing")
            => is_stopping /\ ~is_processing' /\ pc'[p] = "st_title"
        /\ Leaves(p, "st_title")
            => ~is_processing /\ current_window_title' = None
               /\ pc'[p] = "st_receiver"
        /\ Leaves(p, "st_receiver")
            => current_window_title = None /\ frame_receiver' = None
               /\ pc'[p] = "st_send"
        /\ Leaves(p, "st_send")
            => frame_receiver = None /\ frame_sender' = None
               /\ pc'[p] = "gs_control" /\ Head(stack'[p]) = "st_reset"
        /\ (InTeardown(p) /\ Leaves(p, "gs_control"))
            => capture_control' = None /\ pc'[p] = "gs_dxgi"
        /\ (InTeardown(p) /\ Leaves(p, "gs_dxgi"))
            => capture_control = None /\ dxgi_capture' = None
               /\ pc'[p] = "st_reset"
        /\ Leaves(p, "st_reset")
            => /\ is_stopping /\ ~is_stopping'
               /\ ~is_processing'
               /\ current_window_title' = None /\ frame_receiver' = None
               /\ capture_control' = None /\ dxgi_capture' = None
               /\ op[p] = "stop_capture"
                    => lastDone' = [op |-> "stop_capture", arg |-> None, res |-> "ok"]]_vars

\* a stop_capture has returned from the teardown of a service that was
\* processing window A: its capture thread is stopped
C14_Witness ==
    /\ lastDone = [op |-> "stop_capture", arg |-> None, res |-> "ok"]
    /\ AllIdle
    /\ Len(threads) = 1 /\ ~threads[1].running
    /\ Len(loops) = 1
    /\ ~is_processing /\ ~is_stopping

\* C15: once a stop_capture of GraphicsCaptureService has returned, and until
\* another call is made, no capture backend publishes to the hub (so that a
\* receiver obtained from subscribe() in between receives nothing).
C15_QuietAfterStop ==
    [][(lastDone.op = "graphics_stop_capture" /\ AllIdle) => ~Publishes]_vars

\* C16: a set_window whose title matches no window returns the error and
\* stops no capture thread that is running.
C16_NotFoundKeepsCapture ==
    [][\A p \in Procs :
        (op[p] = "set_window" /\ arg[p] = Some(NoSuchWindow))
        => /\ RunningThreads \subseteq {i \in DOMAIN threads' : threads'[i].running}
           /\ pc'[p] = Idle => lastDone'.res = "err"]_vars

(***************************************************************************)
(* Properties of the DXGI engine and its loop                              *)
(***************************************************************************)
\* a capture_frame call returns in this step
CaptureReturns == dxCalls' = dxCalls + 1 /\ dxReturned'.call = "capture_frame"

\* C17: a capture_frame that finds access lost drops the session and returns
\* AccessLost; from then on, until an initialize_primary_output succeeds,
\* the engine has no session and every capture_frame returns InvalidCall,
\* without acquiring anything.
C17_AccessLostUninitializes ==
    /\ [](dxLost => duplication = None)
    /\ [][CaptureReturns =>
            /\ (duplication # None /\ dxReturned'.os = "ACCESS_LOST")
                => /\ duplication' = None
                   /\ dxReturned'.res = "AccessLost"
            /\ dxLost
                => /\ dxReturned'.res = "InvalidCall"
                   /\ dxReturned'.os = NotAcquired
                   /\ duplication' = None]_vars

\* the owner of an engine lost access and, with no initialization that
\* succeeded since, called capture_frame, which returned InvalidCall
C17_Witness ==
    /\ dxLoop = "client"
    /\ dxLost
    /\ dxCalls = 4
    /\ dxReturned = [call |-> "capture_frame", os |-> NotAcquired, res |-> "InvalidCall"]

\* C18: when capture_frame returns AccessLost to the loop the engine goes
\* from Bound to Uninitialized, and when the re-initialization succeeds it
\* is Bound again and the loop goes on to its next capture, its task still
\* running; neither step publishes or counts anything, reaches a receiver
\* or reports an error.
C18_RecoveryIsSilent ==
    [][/\ (dxLoop = "capture" /\ dxLoop' = "recover")
            => /\ duplication # None /\ duplication' = None
               /\ UNCHANGED <<hubVars, metricVars, subLog, dxReports, dxgiTasks>>
       /\ (dxLoop = "recover" /\ dxReturned'.res = "Ok")
            => /\ duplication = None /\ duplication' # None
               /\ dxLoop' = "capture"
               /\ dxgiTasks' = <<"loop">>
               /\ UNCHANGED <<hubVars, metricVars, subLog, dxReports>>]_vars

\* the loop has published a frame, then lost access and recovered
C18_Witness ==
    /\ dxLoop = "capture"
    /\ dxCalls = 3
    /\ dxReturned = [call |-> "initialize_primary_output", os |-> NotAcquired, res |-> "Ok"]
    /\ sent = 1 /\ frames_dropped = 1
    /\ duplication # None

\* C19: when the re-initialization after AccessLost fails the loop returns;
\* its task reports the error once and ends, and the engine is not called
\* again.
C19_FailedRecoveryEndsLoop ==
    /\ [](dxReports <= 1)
    /\ [](dxLoop = "done" => (dxReports = 1 /\ dxgiTasks = <<"done">>))
    /\ [][/\ (dxLoop = "recover" /\ dxCalls' # dxCalls /\ dxReturned'.res # "Ok")
                => dxLoop' = "failed"
          /\ (dxLoop = "failed" /\ dxLoop' # dxLoop)
                => (dxLoop' = "done" /\ dxReports' = dxReports + 1)
          /\ dxLoop \in {"failed", "done"}
                => UNCHANGED <<duplication, dxReturned, dxCalls>>
          /\ dxLoop = "done" => UNCHANGED dxVars]_vars

\* the loop has ended after a failed re-initialization, reported once
C19_Witness ==
    /\ dxLoop = "done"
    /\ dxReturned = [call |-> "initialize_primary_output", os |-> NotAcquired,
                     res |-> "DuplicationError"]
    /\ dxReports = 1
    /\ dxgiLock = None

\* C20: every capture_frame of the loop but its first comes after the 33 ms
\* sleep that follows the capture_frame before it.
C20_SleepBeforeEveryCapture ==
    [][(dxLoop = "capture" /\ CaptureReturns) => dxRested]_vars

(***************************************************************************)
(* Properties of TextureProcessor                                          *)
(***************************************************************************)
\* extract_frame_data is entered in this step
ExtractionBegins == extraction'.calls = extraction.calls + 1

\* C21: extract_frame_data tries the GPU path first exactly when GPU
\* processing is enabled, which it is until set_gpu_processing is called; a
\* failed GPU path is always followed by the CPU path; the call's result is
\* the GPU path's frame, or else whatever the CPU path returned, so an error
\* returned is a CPU-path error and never the GPU path's error.
C21_GpuFirstCpuFallback ==
    /\ [](extraction.sets = 0 => gpu_processing_enabled)
    /\ [][ExtractionBegins =>
            /\ gpu_processing_enabled => extraction'.at = "gpu"
            /\ ~gpu_processing_enabled => extraction'.at = "cpu"]_vars
    /\ [][(extraction.at = "gpu" /\ extraction' # extraction) =>
            /\ extraction.paths = <<>>
            /\ extraction'.gpu.ok =>
                    /\ extraction'.at = "done"
                    /\ extraction'.result = TexOk("GpuOptimized")
            /\ ~extraction'.gpu.ok =>
                    /\ extraction'.at = "cpu"
                    /\ extraction'.result = NoTexResult]_vars
    /\ [](extraction.at = "done" =>
            /\ extraction.paths \in {<<"gpu">>, <<"cpu">>, <<"gpu", "cpu">>}
            /\ extraction.paths = <<"gpu">> <=> extraction.gpu.ok
            /\ ~extraction.result.ok =>
                    /\ extraction.paths[Len(extraction.paths)] = "cpu"
                    /\ extraction.result.what \in
                            {"StagingTextureCreation", "TextureMapping"})

\* the GPU path failed and the CPU path produced the frame
C21_Witness ==
    /\ extraction.at = "done"
    /\ extraction.paths = <<"gpu", "cpu">>
    /\ extraction.gpu = TexErr("GpuProcessing")
    /\ extraction.result = TexOk("CpuCopy")
    /\ extraction.logged = 1

(***************************************************************************)
(* Properties of the platforms Capture                                     *)
(***************************************************************************)
\* C30: when a Capture switches its target or its backend kind, the backend
\* it held is released before the new one is constructed, so at most one of
\* its backends exists at any time.
C30_OneBackendAtATime == Cardinality(LiveBackends) <= 1

(***************************************************************************)
(* Properties of the frame processing                                      *)
(***************************************************************************)
\* the processing task i finishes process_minimap_frame in this step
Processes(i) == loops[i].pc = "process" /\ loops'[i].pc # "process"
\* the frame the processing task i has received
InHand(i) == Get(loops[i].frame)

\* C22: a frame whose format is Jpeg comes out of process_minimap_frame as
\* the very bytes that came in, whatever the frame.
C22_JpegPassesThrough ==
    [][\A i \in DOMAIN loops :
        (Processes(i) /\ InHand(i).format = "Jpeg") =>
            /\ frame_sender' = Some(InHand(i).data)
            /\ metrics'.frames_processed = metrics.frames_processed + 1]_vars

\* C22 as amended: a Jpeg frame whose data is not empty comes out as the
\* very bytes that came in; a Jpeg frame with empty data is refused like
\* any empty frame and nothing is published for it.
C22_NonEmptyJpegPassesThrough ==
    [][\A i \in DOMAIN loops :
        (Processes(i) /\ InHand(i).format = "Jpeg") =>
            IF BytesLen(InHand(i).data) > 0
            THEN /\ frame_sender' = Some(InHand(i).data)
                 /\ metrics'.frames_processed = metrics.frames_processed + 1
            ELSE /\ frame_sender' = frame_sender
                 /\ metrics'.frames_dropped = metrics.frames_dropped + 1]_vars

\* a Jpeg frame has been processed and its bytes are on the watch channel
C22_Witness ==
    /\ Len(hubLog) = 1 /\ hubLog[1].format = "Jpeg"
    /\ hubLog[1].data = Bytes(EncodedLen, "stream")
    /\ loops[1].next = 1 /\ loops[1].pc = "check"
    /\ frame_sender = Some(hubLog[1].data)
    /\ metrics.frames_processed = 1

\* C23: a raw frame wider than 800 or higher than 450 is downsampled and
\* its encoding has exactly 800 x 450 pixels; a raw frame within both
\* limits is encoded at its own size.
C23_OversizedRawDownsampled ==
    [][\A i \in DOMAIN loops :
        (/\ Processes(i)
         /\ InHand(i).format \in {"Bgra8", "Rgba8", "Rgb8"}
         /\ BytesLen(InHand(i).data) > 0) =>
            frame_sender' =
                IF InHand(i).width > TargetWidth \/ InHand(i).height > TargetHeight
                THEN Some(Jpeg(TargetWidth, TargetHeight, "pixels"))
                ELSE Some(Jpeg(InHand(i).width, InHand(i).height, "pixels"))]_vars

\* C25: when process_minimap_frame fails on a frame, frames_dropped grows
\* by one, frames_processed and the watch channel keep their values, and
\* the task goes to its next iteration, where it receives again while the
\* service is processing.
C25_FailedFrameDropped ==
    /\ [][\A i \in DOMAIN loops :
            (Processes(i) /\ ~ProcessMinimapFrame(InHand(i)).ok) =>
                /\ BytesLen(InHand(i).data) = 0
                        \/ InHand(i).width > JpegMaxDimension
                /\ metrics'.frames_dropped = metrics.frames_dropped + 1
                /\ metrics'.frames_processed = metrics.frames_processed
                /\ frame_sender' = frame_sender
                /\ loops'[i].pc = "check"]_vars
    /\ [][\A i \in DOMAIN loops :
            (loops[i].pc = "check" /\ is_processing /\ loops'[i] # loops[i]) =>
                loops'[i].pc = "recv"]_vars

\* the encoder refused a frame, the frame was dropped and the task is
\* receiving again
C25_Witness ==
    /\ Len(hubLog) = 1 /\ BytesLen(hubLog[1].data) > 0
    /\ metrics = [frames_processed |-> 0, frames_dropped |-> 1]
    /\ frame_sender = None
    /\ loops[1].pc = "recv" /\ loops[1].next = 1

\* the processing task i is handed a lag notice by recv()
LagNotice(i) ==
    /\ loops[i].pc = "recv" /\ loops'[i] # loops[i]
    /\ loops[i].next < HubOldest

\* C24: when recv() reports a lag with skip count n, exactly n is added to
\* frames_dropped of MinimapService, frames_processed and the watch channel
\* keep their values, and the task goes to its next iteration, where it
\* receives again while the service is processing: lag does not end it.
C24_LagCountsSkipped ==
    /\ [][\A i \in DOMAIN loops :
            LagNotice(i) =>
                /\ metrics'.frames_dropped =
                        metrics.frames_dropped + (HubOldest - loops[i].next)
                /\ metrics'.frames_processed = metrics.frames_processed
                /\ frame_sender' = frame_sender
                /\ loops'[i].pc = "check" /\ loops'[i].frame = None]_vars
    /\ [][\A i \in DOMAIN loops :
            (loops[i].pc = "check" /\ is_processing /\ loops'[i] # loops[i]) =>
                loops'[i].pc = "recv"]_vars

\* the task fell two frames behind the channel before it first received:
\* both are counted as dropped, nothing was published and the task is
\* receiving again
C24_Witness ==
    /\ metrics = [frames_processed |-> 0, frames_dropped |-> 2]
    /\ frame_sender = None
    /\ sent = BufferLen + 2
    /\ loops[1].pc = "recv" /\ loops[1].next = 2

\* C26: frames_captured, frames_dropped and total_capture_time_ms of the
\* graphics service never decrease, whatever start, stop and rebind calls
\* are made and whatever the backends do.
C26_CountersNeverDecrease ==
    [][/\ frames_captured' >= frames_captured
       /\ frames_dropped' >= frames_dropped
       /\ total_capture_time_ms' >= total_capture_time_ms]_vars

\* window A was captured and then window B was bound in its place, with
\* frames sent, frames dropped and capture time counted on the way
C26_Witness ==
    /\ lastDone = [op |-> "start_window_capture", arg |-> Some("B"), res |-> "ok"]
    /\ Len(threads) = 2 /\ threads[1].win = "A"
    /\ frames_captured >= 1 /\ frames_dropped >= 1
    /\ total_capture_time_ms >= 1

\* C27: the active_subscribers metric equals the number of live receivers
\* of the hub in every state, from the moment the consumers subscribe.
C27_ActiveSubscribersIsReceiverCount == active_subscribers = ReceiverCount

\* C29: under concurrent start_window_capture and stop_capture calls the
\* binding is updated as a unit: whenever a capture control is held, it is
\* the control started for the window stored in current_window.
C29_ControlMatchesWindow ==
    capture_control # None =>
        /\ current_window # None
        /\ threads[Get(capture_control)].win = Get(current_window)

\* C28: once stop_capture has cleared the running flag, and while nothing
\* sets it again, the processing task publishes at most one more processed
\* frame: with k frames processed when the flag is clear, no later state
\* has more than k + 1.
C28_AtMostOneLateFrame ==
    \A k \in 0..MaxStopFrames :
        []((~is_processing /\ metrics.frames_processed = k) =>
                [](metrics.frames_processed <= k + 1))

\* stop_capture cleared the flag, sent the empty value and returned; the
\* task published the frame it had in hand after that and then ended,
\* leaving frames of the channel unread
C28_Witness ==
    /\ ~is_processing
    /\ lastDone = [op |-> "stop_capture", arg |-> None, res |-> "ok"]
    /\ frame_sender # None
    /\ loops[1].pc = "done"
    /\ sent > metrics.frames_processed

\* caller p leaves start_dxgi_capture at DxgiCapture::new
DxgiNewFails(p) == pc[p] = "sdx_new" /\ pc'[p] = Idle

\* C31: when DxgiCapture::new fails, start_dxgi_capture returns the error
\* to its caller at once: dxgi_capture keeps its value, no capture task is
\* spawned and the call is not made again.
C31_DxgiCreationFailureReturned ==
    [][\A p \in Procs :
        DxgiNewFails(p) =>
            /\ lastDone' = [op |-> op[p], arg |-> None, res |-> "err"]
            /\ dxgi_capture' = dxgi_capture
            /\ dxgiTasks' = dxgiTasks
            /\ calls' = calls]_vars

\* the first call of a new service was start_dxgi_capture and it failed
C31_Witness ==
    /\ lastDone = [op |-> "start_dxgi_capture", arg |-> None, res |-> "err"]
    /\ calls = 1
    /\ dxgi_capture = None /\ dxgiTasks = <<>>

\* C32: once stop_capture has completed, and no start or set_window
\* follows, the processing task spawned by start_capture eventually exits.
C32_LoopExitsAfterStop ==
    (lastDone = [op |-> "stop_capture", arg |-> None, res |-> "ok"])
        ~> (\A i \in DOMAIN loops : loops[i].pc = "done")

\* C33: after a stop_capture that ran the teardown has returned, and until
\* the next start, the watch channel holds the empty value.
C33_EmptyAfterStop ==
    lastDone = [op |-> "stop_capture", arg |-> None, res |-> "ok"] =>
        frame_sender = None

\* C34: a start_window_capture that fails returns an error and leaves
\* current_window, capture_control and dxgi_capture as they were before the
\* call; when it is the only call made on a new service, all three are
\* still empty.
C34_FailedStartLeavesBinding ==
    (calls = 1 /\ lastDone.op = "start_window_capture" /\ lastDone.res = "err") =>
        /\ current_window = None
        /\ capture_control = None
        /\ dxgi_capture = None

\* C35: is_capturing returns true only while a backend is running: a
\* capture thread, or a DXGI task that waits for its capture or runs the
\* capture loop.
C35_IsCapturingReflectsBackends ==
    (IsCapturingReturns /\ IsCapturing) =>
        \/ RunningThreads # {}
        \/ \E i \in DOMAIN dxgiTasks : dxgiTasks[i] # "done"

\* C36: a MinimapService that is processing holds exactly one live receiver
\* of the hub, and none once it is stopped: between calls, with no other
\* consumer subscribed, the receiver count is 1 while the service is
\* processing and 0 while it is not.
C36_OneReceiverPerProcessingService ==
    AllIdle => ReceiverCount = (IF is_processing THEN 1 ELSE 0)

\* caller p reaches the receiver test of start_capture and no receiver is
\* stored
NoSubscription(p) ==
    /\ pc[p] = "sc_resubscribe" /\ pc'[p] # pc[p]
    /\ frame_receiver = None

C38_AtMostOneImageTask == Cardinality(RunningImageTasks) <= 1


(***************************************************************************)
(* C39: capture_frame releases every frame it acquired before it returns,  *)
(* on every return path: between calls the session holds no frame.         *)
(***************************************************************************)
C39_FrameReleasedOnReturn == duplication # FrameHeld


(***************************************************************************)
(* C40: in the timer-driven MinimapService, after any start() and stop()   *)
(* calls at most one capture loop keeps running (a later start() makes the *)
(* earlier loop exit), with no sender stored (after a stop()) no loop      *)
(* keeps running, every loop told to end does end, and a stop() made when  *)
(* no loop runs or is being started returns Ok and changes nothing.        *)
(***************************************************************************)
C40_OneTimerLoop ==
    /\ [](Cardinality(RunningTimerLoops) <= 1)
    /\ [](timerService.stop_tx = None => RunningTimerLoops = {})
    /\ \A i \in 1..MaxTimerCalls :
          (/\ i \in DOMAIN timerService.loops
           /\ timerService.loops[i].pc # "new"
           /\ timerService.loops[i].rx # "open")
              ~> (i \in DOMAIN timerService.loops
                    /\ timerService.loops[i].pc = "done")
    /\ [][\A p \in Procs :
            (pc[p] = "tp_take" /\ pc'[p] = Idle /\ StartedTimerLoops = {})
                => /\ timerService' = timerService
                   /\ lastDone' = [op |-> "stop", arg |-> None, res |-> "ok"]]_vars

\* a second start() has made the loop of the first exit, and a stop() after
\* it has made the loop of the second exit
C40_Witness ==
    /\ \E i, j \in DOMAIN timerService.loops :
          /\ i < j
          /\ timerService.loops[i].pc = "done"
          /\ timerService.loops[i].rx = "closed"
          /\ timerService.loops[j].pc = "done"
          /\ timerService.loops[j].rx = "sent"
    /\ timerService.stop_tx = None
    /\ lastDone = [op |-> "stop", arg |-> None, res |-> "ok"]

====
